---- MODULE Spec2Model ----
(***************************************************************************)
(* A model of the miniKanren engine of src/mini/minikanren.ts: terms,      *)
(* substitutions, walk / unify, and the goal algebra as lazy generators.   *)
(***************************************************************************)
EXTENDS Integers, Sequences, FiniteSets, TLC

VARIABLES
  sub,     \* unify machine: the current substitution (a State)
  call,    \* unify machine: the call under study, [op, u, v, s, r]
  ctor,    \* stream machine: the constructor call that built the goal
  goal,    \* stream machine: the goal under study
  st0,     \* stream machine: the State the goal is invoked on
  strm,    \* stream machine: the streams the consumer holds
  world    \* stream machine: the mutable objects the goals share

uvars == <<sub, call>>
svars == <<ctor, goal, st0, strm, world>>
vars == <<sub, call, ctor, goal, st0, strm, world>>

(***************************************************************************)
(* Bounds of the model.                                                    *)
(***************************************************************************)
MaxLen == 2      \* longest sequence among the enumerated argument terms
MaxNest == 12    \* recursion depth after which a descent into terms is a loop
MaxPulls == 4    \* elements the consumer pulls from one stream
Fuel == 16       \* generator resumptions after which one pull is a loop

(***************************************************************************)
(* Terms.  A JavaScript value is a record with a kind k:                   *)
(*   "var"   a Var object, identified by its id;                           *)
(*   "num"   a number n;  "str" a string id;  "undef"  undefined;          *)
(*   "seq"   an array with elements e;                                     *)
(*   "ref"   the array that lives at index n of the heap (an array that    *)
(*           the code mutates after creating it, varList's result).        *)
(***************************************************************************)
Var(id) == [k |-> "var", id |-> id, n |-> 0, e |-> <<>>]
Num(i) == [k |-> "num", id |-> "", n |-> i, e |-> <<>>]
Str(a) == [k |-> "str", id |-> a, n |-> 0, e |-> <<>>]
Arr(els) == [k |-> "seq", id |-> "", n |-> 0, e |-> els]
Ref(i) == [k |-> "ref", id |-> "", n |-> i, e |-> <<>>]
Undef == [k |-> "undef", id |-> "", n |-> 0, e |-> <<>>]
\* not a value: the marker of a computation that never returns
Loop == [k |-> "loop", id |-> "", n |-> 0, e |-> <<>>]

isVar(x) == x.k = "var"
isArray(x) == x.k \in {"seq", "ref"}
\* the elements of an array, read through the heap h for a heap array
Els(x, h) == IF x.k = "ref" THEN h[x.n] ELSE x.e

(***************************************************************************)
(* States (substitutions): functions from variable ids to terms.           *)
(***************************************************************************)
emptyState == <<>>

extend(state, bindings) ==
  [id \in DOMAIN state \cup DOMAIN bindings |->
     IF id \in DOMAIN bindings THEN bindings[id] ELSE state[id]]

\* the object literal { [id]: t }
Bind(id, t) == [i \in {id} |-> t]

\* s[id] of JavaScript: undefined for a missing key
Get(s, id) == IF id \in DOMAIN s THEN s[id] ELSE Undef

RECURSIVE walkN(_, _, _)
walkN(v, s, n) ==
  IF ~isVar(v) THEN v
  ELSE IF n = 0 THEN Loop
  ELSE LET w == Get(s, v.id)
       IN IF v = w THEN v ELSE walkN(w, s, n - 1)

\* a chain of more than |DOMAIN s| bound variables repeats a variable: the
\* while loop of walk never ends
walk(v, s) == walkN(v, s, Cardinality(DOMAIN s) + 1)

RECURSIVE walkRecN(_, _, _, _)
walkRecN(v, s, h, d) ==
  LET w == walk(v, s)
  IN IF w = Loop \/ d = 0 THEN Loop
     ELSE IF isArray(w)
       THEN LET els == Els(w, h)
                r == [i \in 1..Len(els) |-> walkRecN(els[i], s, h, d - 1)]
            IN IF \E i \in 1..Len(els) : r[i] = Loop THEN Loop ELSE Arr(r)
       ELSE w

walkRec(v, s, h) == walkRecN(v, s, h, MaxNest)

(***************************************************************************)
(* unify.  The result is [r |-> "ok", s |-> State], or Failed (the code's  *)
(* undefined), or Diverged (the call never returns).                       *)
(***************************************************************************)
Ok(s) == [r |-> "ok", s |-> s]
Failed == [r |-> "fail", s |-> emptyState]
Diverged == [r |-> "loop", s |-> emptyState]

RECURSIVE unifyN(_, _, _, _, _)
RECURSIVE unifyEls(_, _, _, _, _, _)
RECURSIVE unifyElsShort(_, _, _, _, _, _)

\* a fold that stops one pair early (i < length - 1)
unifyElsShort(us, vs, i, t, h, d) ==
  IF i > Len(us) - 1 THEN Ok(t)
  ELSE LET r == unifyN(us[i], vs[i], t, h, d)
       IN IF r.r # "ok" THEN r ELSE unifyElsShort(us, vs, i + 1, r.s, h, d)

unifyEls(us, vs, i, t, h, d) ==
  IF i > Len(us) THEN Ok(t)
  ELSE LET r == unifyN(us[i], vs[i], t, h, d)
       IN IF r.r # "ok" THEN r ELSE unifyEls(us, vs, i + 1, r.s, h, d)

\* a unify that unifies the common prefix of arrays of unequal length
unifyPrefix(u0, v0, s, h, d) ==
  LET u == walk(u0, s)
      v == walk(v0, s)
  IN IF u = Loop \/ v = Loop \/ d = 0 THEN Diverged
     ELSE IF u = v THEN Ok(s)
     ELSE IF isVar(u) THEN Ok(extend(s, Bind(u.id, v)))
     ELSE IF isVar(v) THEN Ok(extend(s, Bind(v.id, u)))
     ELSE IF isArray(u) /\ isArray(v)
       THEN IF Len(Els(u, h)) <= Len(Els(v, h))
              THEN unifyEls(Els(u, h), Els(v, h), 1, s, h, d - 1)
              ELSE unifyEls(Els(v, h), Els(u, h), 1, s, h, d - 1)
       ELSE Failed

\* a unify that binds its arguments as given, without walking them first
unifyUnwalked(u0, v0, s, h, d) ==
  IF d = 0 THEN Diverged
  ELSE IF u0 = v0 THEN Ok(s)
  ELSE IF isVar(u0) THEN Ok(extend(s, Bind(u0.id, v0)))
  ELSE IF isVar(v0) THEN Ok(extend(s, Bind(v0.id, u0)))
  ELSE IF isArray(u0) /\ isArray(v0)
    THEN IF Len(Els(u0, h)) = Len(Els(v0, h))
           THEN unifyEls(Els(u0, h), Els(v0, h), 1, s, h, d - 1)
           ELSE Failed
    ELSE Failed

unifyN(u0, v0, s, h, d) ==
  LET u == walk(u0, s)
      v == walk(v0, s)
  IN IF u = Loop \/ v = Loop \/ d = 0 THEN Diverged
     ELSE IF u = v THEN Ok(s)
     ELSE IF isVar(u) THEN Ok(extend(s, Bind(u.id, v)))
     ELSE IF isVar(v) THEN Ok(extend(s, Bind(v.id, u)))
     ELSE IF isArray(u) /\ isArray(v)
       THEN IF Len(Els(u, h)) = Len(Els(v, h))
              THEN unifyEls(Els(u, h), Els(v, h), 1, s, h, d - 1)
              ELSE Failed
       ELSE Failed

unify(u, v, s, h) == unifyN(u, v, s, h, MaxNest)

\* occursCheck answers "yes" / "no", or "loop" when it never returns;
\* Array.some stops at the first element that answers yes
RECURSIVE occursCheckN(_, _, _, _, _)
RECURSIVE occursSome(_, _, _, _, _, _)

occursSome(x, els, i, s, h, d) ==
  IF i > Len(els) THEN "no"
  ELSE LET r == occursCheckN(x, els[i], s, h, d)
       IN IF r = "no" THEN occursSome(x, els, i + 1, s, h, d) ELSE r

occursCheckN(x, v0, s, h, d) ==
  LET v == walk(v0, s)
  IN IF v = Loop \/ d = 0 THEN "loop"
     ELSE IF isVar(v) THEN (IF x = v THEN "yes" ELSE "no")
     ELSE IF isArray(v) THEN occursSome(x, Els(v, h), 1, s, h, d - 1)
     ELSE "no"

occursCheck(x, v, s, h) == occursCheckN(x, v, s, h, MaxNest)

unifyCheck(u, v, s, h) ==
  IF u = v THEN unify(u, v, s, h)
  ELSE LET a == occursCheck(u, v, s, h)
       IN IF a = "loop" THEN Diverged
          ELSE IF a = "yes" THEN Failed
          ELSE LET b == occursCheck(v, u, s, h)
               IN IF b = "loop" THEN Diverged
                  ELSE IF b = "yes" THEN Failed
                  ELSE unify(u, v, s, h)

(***************************************************************************)
(* Cycles of a substitution.  x -> y when y occurs in the term x is bound  *)
(* to (a variable bound to itself is unbound: no edge).  walk* of a term   *)
(* terminates iff no cycle of this graph is reachable from it.             *)
(***************************************************************************)
RECURSIVE VarsIn(_, _, _)
VarsIn(t, h, d) ==
  IF isVar(t) THEN {t.id}
  ELSE IF isArray(t) /\ d > 0
    THEN UNION {VarsIn(Els(t, h)[i], h, d - 1) : i \in 1..Len(Els(t, h))}
  ELSE {}

Edges(s, h, x) == IF x \in DOMAIN s /\ s[x] # Var(x) THEN VarsIn(s[x], h, MaxNest) ELSE {}

RECURSIVE ReachN(_, _, _, _)
ReachN(s, h, from, n) ==
  IF n = 0 THEN from
  ELSE LET more == from \cup UNION {Edges(s, h, x) : x \in from}
       IN IF more = from THEN from ELSE ReachN(s, h, more, n - 1)

\* the variables reachable from x in one or more steps
Reach(s, h, x) == ReachN(s, h, Edges(s, h, x), Cardinality(DOMAIN s) + 1)

Cyclic(s, h) == \E x \in DOMAIN s : x \in Reach(s, h, x)

(***************************************************************************)
(* Goals.  A goal is a record with a kind k and the values its closure     *)
(* holds: terms u, v, t, goals or clauses gs, a number n, a State a, the   *)
(* name f of a goal constructor, and c, the identity of the goal object    *)
(* when its closure holds a variable that the goal changes.                *)
(***************************************************************************)
mk(k) == [k |-> k, f |-> "", u |-> Undef, v |-> Undef, t |-> Undef,
          gs |-> <<>>, n |-> 0, a |-> emptyState, c |-> 0]

succeed == mk("succeed")
fail == mk("fail")

identical(u, v) == [mk("identical") EXCEPT !.u = u, !.v = v]
identicalCheck(u, v) == [mk("identicalCheck") EXCEPT !.u = u, !.v = v]

\* an array of goals, as a clause of conde / condi / conda / condu
Clause(goals) == [mk("clause") EXCEPT !.gs = goals]
isClauseArray(g) == g.k = "clause"

\* a conj that stops at a leading succeed
conjShort(goals) ==
  IF Len(goals) = 0 THEN succeed
  ELSE IF Len(goals) = 1 THEN goals[1]
  ELSE IF goals[1].k = "succeed" THEN succeed
  ELSE IF goals[1].k = "fail" THEN goals[1]
  ELSE [mk("conj") EXCEPT !.gs = goals]

\* gs[1] is the closure's `goal`, Tail(gs) its `goals` after the shift
RECURSIVE conj(_)
conj(goals) ==
  IF Len(goals) = 0 THEN succeed
  ELSE IF Len(goals) = 1 THEN goals[1]
  ELSE IF goals[1].k = "succeed" THEN conj(Tail(goals))
  ELSE IF goals[1].k = "fail" THEN goals[1]
  ELSE [mk("conj") EXCEPT !.gs = goals]

disj(goals) ==
  IF Len(goals) = 0 THEN fail
  ELSE IF Len(goals) = 1 THEN goals[1]
  ELSE [mk("disj") EXCEPT !.gs = goals]

disji(goals) ==
  IF Len(goals) = 0 THEN fail
  ELSE IF Len(goals) = 1 THEN goals[1]
  ELSE [mk("disji") EXCEPT !.gs = goals]

delay(fn, s) == [mk("delay") EXCEPT !.f = fn, !.a = s]

\* c names the goal object: its closure variable `count` is world.count[c]
take(count, g, c) == [mk("take") EXCEPT !.n = count, !.gs = <<g>>, !.c = c]

conde(goals) ==
  IF Len(goals) = 0 THEN fail
  ELSE IF Len(goals) = 1
    THEN (IF isClauseArray(goals[1]) THEN conj(goals[1].gs) ELSE goals[1])
  ELSE [mk("conde") EXCEPT !.gs = goals]

condi(goals) ==
  IF Len(goals) = 0 THEN fail
  ELSE IF Len(goals) = 1
    THEN (IF isClauseArray(goals[1]) THEN conj(goals[1].gs) ELSE goals[1])
  ELSE [mk("condi") EXCEPT !.gs = goals]

conda(goals) ==
  IF Len(goals) = 0 THEN fail
  ELSE IF Len(goals) = 1
    THEN (IF isClauseArray(goals[1]) THEN conj(goals[1].gs) ELSE goals[1])
  ELSE [mk("conda") EXCEPT !.gs = goals]

\* c names the goal object: its clause arrays are world.cls[c]
condu(goals, c) ==
  IF Len(goals) = 0 THEN fail
  ELSE [mk("condu") EXCEPT !.gs = goals, !.c = c]

Infinity == [k |-> "num", id |-> "Infinity", n |-> 0, e |-> <<>>]
\* a bigint: a number value of its own type (1n is not 1)
Big(i) == [k |-> "num", id |-> "bigint", n |-> i, e |-> <<>>]
\* Number.isInteger(x), or typeof x === "bigint"
isInteger(x) == x.k = "num" /\ x.id \in {"", "bigint"}
\* a <= b on numbers
Leq(a, b) == IF b = Infinity THEN TRUE ELSE IF a = Infinity THEN FALSE ELSE a.n <= b.n

betweenGGG(start, stop, value) ==
  IF Leq(start, value) /\ Leq(value, stop) THEN succeed ELSE fail
betweenGGV(start, stop, value) ==
  [mk("betweenGGV") EXCEPT !.u = start, !.v = stop, !.t = value]

between(start, stop, value) ==
  IF isInteger(start) /\ (isInteger(stop) \/ stop = Infinity)
    THEN IF isInteger(value) THEN betweenGGG(start, stop, value)
         ELSE IF isVar(value)
           THEN [mk("betweenWalk") EXCEPT !.u = start, !.v = stop, !.t = value]
         ELSE fail
    ELSE [mk("betweenLate") EXCEPT !.u = start, !.v = stop, !.t = value]

\* the goal constructors of the tests, by name
fives(s) == disj(<<identical(Get(s, "x"), Num(5)), delay("fives", s)>>)
sixes(s) == [mk("sixes") EXCEPT !.a = s]
MakeGoal(fn, s) == IF fn = "fives" THEN fives(s) ELSE sixes(s)

(***************************************************************************)
(* The relational library: the constructors choose a mode by the kinds of  *)
(* their arguments, as given (unwalked).  Array arguments are literals.    *)
(***************************************************************************)
G1(k, u) == [mk(k) EXCEPT !.u = u]
G2(k, u, v) == [mk(k) EXCEPT !.u = u, !.v = v]
G3(k, u, v, t) == [mk(k) EXCEPT !.u = u, !.v = v, !.t = t]
\* the constructor throws: there is no goal
Raise == mk("raise")

\* u is el, v is list
membero(el, list) ==
  IF isVar(list) THEN G2("memberoV", el, list)
  ELSE IF isArray(list) THEN G2("memberoA", el, list)
  ELSE fail

listo(x) == IF isVar(x) THEN G1("listo", x) ELSE IF isArray(x) THEN succeed ELSE fail

\* u is car, v is cdr, t is list
conso(car, cdr, list) ==
  IF isArray(cdr) THEN identical(Arr(<<car>> \o cdr.e), list)
  ELSE IF isVar(cdr) THEN G3("conso", car, cdr, list)
  ELSE Raise

firsto(u, v) ==
  IF isVar(v) THEN G2("firsto", u, v)
  ELSE IF isArray(v) /\ Len(v.e) > 0 THEN identical(u, v.e[1])
  ELSE fail

\* list.slice(from) and list.slice(0, to), on sequences
SliceFrom(els, from) == IF from >= Len(els) THEN <<>> ELSE SubSeq(els, from + 1, Len(els))
SliceTo(els, to) == IF to >= Len(els) THEN els ELSE SubSeq(els, 1, to)

\* u is prefix, v is suffix, t is list
appendo(prefix, suffix, list) ==
  IF isArray(prefix)
    THEN IF isArray(suffix) THEN identical(Arr(prefix.e \o suffix.e), list)
         ELSE IF isVar(suffix) /\ isArray(list)
           THEN conj(<<identical(Arr(SliceTo(list.e, Len(prefix.e))), prefix),
                       identical(Arr(SliceFrom(list.e, Len(prefix.e))), suffix)>>)
         ELSE IF isVar(suffix) /\ isVar(list) THEN G3("appendoAVV", prefix, suffix, list)
         ELSE fail
  ELSE IF isVar(prefix)
    THEN IF isArray(suffix) /\ isArray(list)
           THEN IF Len(list.e) - Len(suffix.e) < 0 THEN fail
                ELSE G3("appendoVAA", prefix, suffix, list)
         ELSE IF isArray(suffix) /\ isVar(list) THEN G3("appendoVAV", prefix, suffix, list)
         ELSE IF isVar(suffix) /\ isArray(list) THEN G3("appendoVVA", prefix, suffix, list)
         ELSE IF isVar(suffix) /\ isVar(list) THEN G3("appendoVVV", prefix, suffix, list)
         ELSE fail
  ELSE fail

\* a === b on values: arrays are equal only to themselves, and two array
\* literals are two arrays
StrictEq(a, b) == a = b /\ a.k # "seq"

\* u is n, v is list, t is el
ntho(n, list, el) ==
  IF isInteger(n)
    THEN IF isArray(list)
           THEN IF isVar(el)
                  THEN (IF n.n >= 0 /\ n.n < Len(list.e) THEN identical(el, list.e[n.n + 1])
                        ELSE fail)
                ELSE IF n.n >= 0 /\ n.n < Len(list.e) /\ StrictEq(el, list.e[n.n + 1])
                  THEN succeed
                ELSE fail
         ELSE IF isVar(list) THEN G3("nthoIV", n, list, el)
         ELSE Raise
  ELSE IF isVar(n)
    THEN IF isArray(list)
           THEN (IF isVar(el) THEN G3("nthoVAV", n, list, el) ELSE G3("nthoVAG", n, list, el))
         ELSE IF isVar(list) THEN G3("nthoVV", n, list, el)
         ELSE Raise
  ELSE Raise

\* an integer u (number or bigint) decides v or gives it; a Var u is given
\* by an integer v; the sum keeps the type of the known side
succo(u, v) ==
  IF isInteger(u)
    THEN IF isInteger(v) THEN (IF v.n - u.n = 1 THEN succeed ELSE fail)
         ELSE IF isVar(v) THEN identical(v, [u EXCEPT !.n = @ + 1])
         ELSE Raise
  ELSE IF isVar(u) /\ isInteger(v) THEN identical(u, [v EXCEPT !.n = @ - 1])
  ELSE Raise

\* typeof x is "number" or "bigint" holds for the integers (BigInt of a number
\* that is not an integer throws as well); every result is a bigint
pluso(a, b, c) ==
  IF isInteger(a)
    THEN IF isInteger(b)
           THEN IF isInteger(c) THEN (IF a.n + b.n = c.n THEN succeed ELSE fail)
                ELSE IF isVar(c) THEN identical(c, Big(a.n + b.n))
                ELSE Raise
         ELSE IF isVar(b) /\ isInteger(c) THEN identical(b, Big(c.n - a.n))
         ELSE Raise
  ELSE IF isVar(a) /\ isInteger(b) /\ isInteger(c) THEN identical(a, Big(c.n - b.n))
  ELSE Raise

\* typeof length === "number" is a plain number (the enumerated ones are
\* integers); the Vars of Array.from(.., () => new Var()) are made once, when
\* the goal is constructed
lengtho(list, length) ==
  IF isArray(list)
    THEN IF length.k = "num" /\ length.id # "bigint"
           THEN (IF Num(Len(list.e)) = length THEN succeed ELSE fail)
         ELSE IF isVar(length) THEN identical(length, Num(Len(list.e)))
         ELSE Raise
  ELSE IF isVar(list)
    THEN IF length.k = "num"
           THEN identical(list, Arr([i \in 1..length.n |-> Var("_n" \o ToString(i))]))
         ELSE IF isVar(length) THEN G2("lengthoVV", list, length)
         ELSE Raise
  ELSE Raise

\* x is not a variable and contains no variables
RECURSIVE isGround(_)
isGround(x) ==
  IF x.k = "seq" THEN \A i \in 1..Len(x.e) : isGround(x.e[i]) ELSE ~isVar(x)

\* els.join(""): each element converted to a string (a string is itself, a
\* number its decimal digits, a Var what Var.toString gives, undefined "")
RECURSIVE join(_)
join(els) ==
  IF els = <<>> THEN ""
  ELSE (CASE Head(els).k = "str" -> Head(els).id
          [] Head(els).k = "num" -> ToString(Head(els).n)
          [] Head(els).k = "var" -> "Var(\"" \o Head(els).id \o "\")"
          [] Head(els).k = "undef" -> "") \o join(Tail(els))

\* str.split(""): the sequence of one-character strings whose join is str
\* (strings over the letters a, b and the digits 1, 2, at most MaxLen long)
split(str) ==
  CHOOSE cs \in UNION {[1..n -> {Str("a"), Str("b"), Str("1"), Str("2")}] : n \in 0..MaxLen} :
    join(cs) = str

\* Number(str) of a string of digits ("" is 0), NaN of any other string
Number(str) ==
  IF str = "" THEN Num(0)
  ELSE IF \E i \in 0..(10 ^ MaxLen - 1) : ToString(i) = str
    THEN Num(CHOOSE i \in 0..(10 ^ MaxLen - 1) : ToString(i) = str)
  ELSE [Num(0) EXCEPT !.id = "NaN"]

\* n.toString() of the enumerated numbers is the decimal digits
numberChars(n, cs) ==
  IF n.k = "num" /\ n.id # "bigint"
    THEN IF isGround(cs) /\ isArray(cs)
           THEN (IF ToString(n.n) = join(cs.e) THEN succeed ELSE fail)
         ELSE IF isVar(cs) \/ isArray(cs)
           THEN identical(Arr(split(ToString(n.n))), cs)
         ELSE Raise
  ELSE IF isVar(n)
    THEN IF isGround(cs)
           THEN (IF isArray(cs) THEN identical(n, Number(join(cs.e))) ELSE fail)
         ELSE G2("numberChars", n, cs)
  ELSE Raise

stringChars(str, cs) ==
  IF isArray(cs)
    THEN IF str.k = "str" THEN (IF str.id = join(cs.e) THEN succeed ELSE fail)
         ELSE IF isVar(str)
           THEN IF \E i \in 1..Len(cs.e) : isVar(cs.e[i])
                  THEN G2("stringCharsAV", str, cs)
                  ELSE identical(str, Str(join(cs.e)))
         ELSE Raise
  ELSE IF isVar(cs)
    THEN IF str.k = "str" THEN identical(cs, Arr(split(str.id)))
         ELSE IF isVar(str) THEN G2("stringCharsVV", str, cs)
         ELSE Raise
  ELSE Raise

\* filter(isGround): the goal of a Var tests the Var itself when pulled, any
\* other argument is tested when the goal is made
groundo(x) ==
  IF isVar(x) THEN G1("filter", x) ELSE IF isGround(x) THEN succeed ELSE fail

(***************************************************************************)
(* The world: what goal objects and generators share and mutate.           *)
(*   arr    the arrays that varList mutates, Ref(i) is arr[i];             *)
(*   nv     the number of Vars made by `new Var()`;                        *)
(*   count  take's closure variable `count`, by goal object;               *)
(*   cls    condu's clause arrays, by goal object;                         *)
(*   log    the calls and resumptions of generators, by path in the goal   *)
(*          tree: <<"call" | "next" | "yield" | "done", path>>.            *)
(***************************************************************************)
World0 == [arr |-> <<>>, nv |-> 0, count |-> <<>>, cls |-> <<>>, log |-> <<>>]

Log(w, e, p) == [w EXCEPT !.log = Append(@, <<e, p>>)]
CountOf(w, g) == IF g.c \in DOMAIN w.count THEN w.count[g.c] ELSE g.n
SetCount(w, g, n) == [w EXCEPT !.count = extend(@, Bind(g.c, n))]
ClausesOf(w, g) == IF g.c \in DOMAIN w.cls THEN w.cls[g.c] ELSE g.gs
SetClauses(w, g, cs) == [w EXCEPT !.cls = extend(@, Bind(g.c, cs))]

\* a new array on the heap (it is Ref(Len(w.arr) + 1)), a push to one
Alloc(w, els) == [w EXCEPT !.arr = Append(@, els)]
Push(w, r, x) == [w EXCEPT !.arr[r] = Append(@, x)]
\* new Var(): its id is fresh
NewVar(w) == Var("_" \o ToString(w.nv + 1))
Made(w) == [w EXCEPT !.nv = @ + 1]
\* result.push(new Var()) on the array r
PushVar(w, r) == Made(Push(w, r, NewVar(w)))
\* Array.from({ length: n }, () => new Var()), appended to acc
RECURSIVE NewVars(_, _, _)
NewVars(w, n, acc) ==
  IF n <= 0 THEN [w |-> w, els |-> acc]
  ELSE NewVars(Made(w), n - 1, Append(acc, NewVar(w)))
\* [...made, x]
Suffixed(made, x) == [w |-> made.w, els |-> Append(made.els, x)]

(***************************************************************************)
(* Generators.  Calling a goal g on a State s makes an iterator; a pull    *)
(* (next()) resumes it until it yields a State, ends, throws, or the fuel  *)
(* is used up (the pull does not return).  An iterator holds the goal g,   *)
(* the State s it was called on, its path p in the goal tree, its position *)
(* pc (0: not yet resumed) and loop index i, the heap index h of the array *)
(* of its varList, and the iterators a, b, its that its body holds.        *)
(***************************************************************************)
NoIt == [k |-> "none"]
New(g, s, p) == [k |-> g.k, g |-> g, s |-> s, p |-> p, pc |-> 0, i |-> 0, h |-> 0,
                 a |-> NoIt, b |-> NoIt, its |-> <<>>]
End(it) == [k |-> "ended", p |-> it.p]
\* what a call g(s) that throws leaves in the place of an iterator
Thrown(p) == [k |-> "thrown", p |-> p]

Res(it, w, r, v, f) == [it |-> it, w |-> w, r |-> r, v |-> v, f |-> f]
Yield(it, w, v, f) == Res(it, w, "yield", v, f)
Done(it, w, f) == Res(End(it), w, "done", emptyState, f)
Stuck(it, w) == Res(End(it), w, "loop", emptyState, 0)
Throw(it, w, f) == Res(End(it), w, "throw", emptyState, f)
\* a sub-iterator ended, threw or did not return: so does this generator
Pass(it, r) == Res(End(it), r.w, r.r, emptyState, r.f)

\* a generator and the world it runs in
Called(it, w) == [it |-> it, w |-> w]
\* the generator it, holding the iterator that the call i made, as a or b
SetA(it, i, pc) == Called([it EXCEPT !.pc = pc, !.a = i.it], i.w)
SetB(it, i) == Called([it EXCEPT !.b = i.it], i.w)

\* g(s): plain functions run now, generator functions start at the first pull
RECURSIVE Invoke(_, _, _, _)
InvokeBetweenWalk(g, s, w, p, x) ==
  IF isInteger(x) THEN Invoke(betweenGGG(g.u, g.v, x), s, w, p)
  ELSE IF isVar(x) THEN Invoke(betweenGGV(g.u, g.v, x), s, w, p)
  ELSE Called(Thrown(p), w)
InvokeBetweenLate(g, s, w, p, start1, stop1) ==
  IF ~isInteger(start1) THEN Called(Thrown(p), w)
  ELSE IF ~isInteger(stop1) /\ stop1 # Infinity THEN Called(Thrown(p), w)
  ELSE Invoke(between(start1, stop1, walk(g.t, s)), s, w, p)
\* the body of conso's function (s), d = walk(cdr, s) and l = walk(list, s);
\* l[0] of an empty array is undefined
InvokeConso(g, s, w, p, d, l) ==
  IF isVar(d) /\ isArray(l)
    THEN Invoke(conj(<<identical(g.u, IF Len(Els(l, w.arr)) > 0 THEN Els(l, w.arr)[1]
                                      ELSE Undef),
                       identical(d, Arr(SliceFrom(Els(l, w.arr), 1)))>>), s, w, p)
  ELSE IF isVar(l) /\ isArray(d)
    THEN Invoke(identical(l, Arr(<<g.u>> \o Els(d, w.arr))), s, w, p)
  ELSE Called(Thrown(p), w)
\* the State a goal function works on when it is called with s: undefined is
\* replaced by emptyState in the functions declared with (s = emptyState)
\* and is as good as emptyState in those that only copy s with Object.assign
\* or hand it to such functions; it stays undefined in the functions that
\* hand it on as it is, and in the generators that walk a Var in it
Received(g, s) ==
  IF s = Undef
       /\ g.k \notin {"fail", "take", "sixes", "appendoVAV", "appendoVVV", "listo",
                      "lengthoVV", "betweenGGV", "stringCharsAV", "stringCharsVV",
                      "numberChars"}
    THEN emptyState ELSE s

\* between called late walks a Var in s, or finds no integer: with undefined
\* as s both of its forms throw when called
Invoke(g, s, w, p) ==
  IF g.k = "delay" THEN Invoke(MakeGoal(g.f, g.a), s, w, p)
  ELSE IF g.k \in {"betweenWalk", "betweenLate", "conso"} /\ s = Undef
    THEN Called(Thrown(p), w)
  ELSE IF g.k = "conso" THEN InvokeConso(g, s, w, p, walk(g.v, s), walk(g.t, s))
  ELSE IF g.k = "betweenWalk" THEN InvokeBetweenWalk(g, s, w, p, walk(g.t, s))
  ELSE IF g.k = "betweenLate"
    THEN InvokeBetweenLate(g, s, w, p, walk(g.u, s), walk(g.v, s))
  ELSE Called(New(g, Received(g, s), p), Log(w, "call", p))

RECURSIVE Pull(_, _, _)

\* function* (s) { const t = unify(u, v, s); if (t) yield t; }
RunIdentical(it, w, f, t) ==
  IF t.r = "ok" THEN Yield(End(it), w, t.s, f)
  ELSE IF t.r = "loop" THEN Stuck(it, w)
  ELSE Done(it, w, f)

\* yield* c.it.a
RunYieldStar(c, f) ==
  LET r == Pull(c.it.a, c.w, f)
  IN IF r.r = "yield" THEN Yield([c.it EXCEPT !.a = r.it], r.w, r.v, r.f)
     ELSE Pass(c.it, r)

\* a conj that also calls the rest of the conjunction on s, before the
\* first conjunct has yielded
ConjEnterEager(it, w) ==
  IF it.pc = 0
    THEN SetB(SetA(it, Invoke(it.g.gs[1], it.s, w, it.p \o <<1>>), 1).it,
              Invoke(conj(Tail(it.g.gs)), it.s, Log(w, "call", it.p \o <<1>>),
                     it.p \o <<2>>))
  ELSE Called(it, w)

\* conj, first resumption: goal(s)
ConjEnter(it, w) ==
  IF it.pc = 0 THEN SetA(it, Invoke(it.g.gs[1], it.s, w, it.p \o <<1>>), 1)
  ELSE Called(it, w)

RECURSIVE RunConj(_, _)
\* a conj that takes only the first element of each inner stream
RunConjFirst(c, f) ==
  IF c.it.b.k # "none"
    THEN LET r == Pull(c.it.b, c.w, f)
         IN IF r.r = "yield" THEN Yield([c.it EXCEPT !.b = NoIt], r.w, r.v, r.f)
            ELSE IF r.r = "done" THEN RunConj(Called([c.it EXCEPT !.b = NoIt], r.w), r.f)
            ELSE Pass(c.it, r)
  ELSE LET r == Pull(c.it.a, c.w, f)
       IN IF r.r # "yield" THEN Pass(c.it, r)
          ELSE RunConj(SetB([c.it EXCEPT !.a = r.it],
                            Invoke(conj(Tail(c.it.g.gs)), r.v, r.w, c.it.p \o <<2>>)),
                       r.f)

\* for (const s1 of goal(s)) yield* conj(...goals)(s1)
\* (a is the iterator of goal(s), b the iterator of conj(...goals)(s1))
RunConj(c, f) ==
  IF c.it.b.k # "none"
    THEN LET r == Pull(c.it.b, c.w, f)
         IN IF r.r = "yield" THEN Yield([c.it EXCEPT !.b = r.it], r.w, r.v, r.f)
            ELSE IF r.r = "done" THEN RunConj(Called([c.it EXCEPT !.b = NoIt], r.w), r.f)
            ELSE Pass(c.it, r)
  ELSE LET r == Pull(c.it.a, c.w, f)
       IN IF r.r # "yield" THEN Pass(c.it, r)
          ELSE RunConj(SetB([c.it EXCEPT !.a = r.it],
                            Invoke(conj(Tail(c.it.g.gs)), r.v, r.w, c.it.p \o <<2>>)),
                       r.f)

\* the goal a clause of conde / condi stands for
clauseGoal(c) == IF isClauseArray(c) THEN conj(c.gs) ELSE c

\* disj / conde: the next goal of `for (const goal of goals)`, called
NextClause(it, w) ==
  IF it.i >= Len(it.g.gs) THEN Called([it EXCEPT !.pc = 1, !.a = NoIt], w)
  ELSE SetA([it EXCEPT !.i = @ + 1],
            Invoke(clauseGoal(it.g.gs[it.i + 1]), it.s, w, it.p \o <<it.i + 1>>), 1)
DisjEnter(it, w) == IF it.pc = 0 THEN NextClause(it, w) ELSE Called(it, w)

RECURSIVE RunDisj(_, _)
\* a disj that leaves a clause after its first element
RunDisjOnce(c, f) ==
  IF c.it.a.k = "none" THEN Done(c.it, c.w, f)
  ELSE LET r == Pull(c.it.a, c.w, f)
       IN IF r.r = "yield" THEN Yield([c.it EXCEPT !.a = End(r.it)], r.w, r.v, r.f)
          ELSE IF r.r = "done" THEN RunDisj(NextClause(c.it, r.w), r.f)
          ELSE Pass(c.it, r)

\* for (const goal of goals) yield* goal(s)
RunDisj(c, f) ==
  IF c.it.a.k = "none" THEN Done(c.it, c.w, f)
  ELSE LET r == Pull(c.it.a, c.w, f)
       IN IF r.r = "yield" THEN Yield([c.it EXCEPT !.a = r.it], r.w, r.v, r.f)
          ELSE IF r.r = "done" THEN RunDisj(NextClause(c.it, r.w), r.f)
          ELSE Pass(c.it, r)

\* goals.map((goal) => goal(s)), from clause j on; c is [its, w, r]
Mapped(c, i) ==
  IF i.it.k = "thrown" THEN [c EXCEPT !.w = i.w, !.r = "throw"]
  ELSE [its |-> Append(c.its, i.it), w |-> i.w, r |-> "ok"]
RECURSIVE InvokeAll(_, _, _, _, _)
InvokeAll(goals, s, p, j, c) ==
  IF j > Len(goals) \/ c.r # "ok" THEN c
  ELSE InvokeAll(goals, s, p, j + 1,
                 Mapped(c, Invoke(clauseGoal(goals[j]), s, c.w, p \o <<j>>)))

\* disji / condi, first resumption: const iters = goals.map(...)
DisjiEntered(it, m) ==
  IF m.r = "ok" THEN Called([it EXCEPT !.pc = 1, !.its = m.its, !.i = 1], m.w)
  ELSE Called([it EXCEPT !.pc = 2], m.w)
DisjiEnter(it, w) ==
  IF it.pc = 0
    THEN DisjiEntered(it, InvokeAll(it.g.gs, it.s, it.p, 1,
                                    [its |-> <<>>, w |-> w, r |-> "ok"]))
  ELSE Called(it, w)

\* a splice that removes the last iterator, whichever one ended
SpliceLast(seq, i) == SubSeq(seq, 1, Len(seq) - 1)

\* iters.splice(i, 1)
Splice(seq, i) == SubSeq(seq, 1, i - 1) \o SubSeq(seq, i + 1, Len(seq))

\* the index of the iterator to resume: i < iters.length, or again from 0
Wrap(it) == IF it.i > Len(it.its) THEN 1 ELSE it.i

RECURSIVE RunDisji(_, _)
\* a disji that resumes the clause it has just yielded from (no ++i)
RunDisjiUnfair(c, f) ==
  IF c.it.pc = 2 THEN Throw(c.it, c.w, f)
  ELSE IF Len(c.it.its) = 0 THEN Done(c.it, c.w, f)
  ELSE LET i == Wrap(c.it)
           r == Pull(c.it.its[i], c.w, f)
       IN IF r.r = "yield"
            THEN Yield([c.it EXCEPT !.its[i] = r.it, !.i = i], r.w, r.v, r.f)
          ELSE IF r.r = "done"
            THEN RunDisji(Called([c.it EXCEPT !.its = Splice(@, i), !.i = i], r.w), r.f)
          ELSE Pass(c.it, r)

\* while (iters.length > 0) for (let i = 0; i < iters.length;) ...
\* (it.i is the index of the iterator to resume next, from 1)
RunDisji(c, f) ==
  IF c.it.pc = 2 THEN Throw(c.it, c.w, f)
  ELSE IF Len(c.it.its) = 0 THEN Done(c.it, c.w, f)
  ELSE LET i == Wrap(c.it)
           r == Pull(c.it.its[i], c.w, f)
       IN IF r.r = "yield"
            THEN Yield([c.it EXCEPT !.its[i] = r.it, !.i = i + 1], r.w, r.v, r.f)
          ELSE IF r.r = "done"
            THEN RunDisji(Called([c.it EXCEPT !.its = Splice(@, i), !.i = i], r.w), r.f)
          ELSE Pass(c.it, r)

\* const iter = goal(s);
\* while (count > 0) { --count; next(); if (done) break; yield value }
RunTake(c, f) ==
  IF c.it.a.k = "thrown" THEN Throw(c.it, c.w, f)
  ELSE IF CountOf(c.w, c.it.g) > 0
    THEN LET r == Pull(c.it.a, SetCount(c.w, c.it.g, CountOf(c.w, c.it.g) - 1), f)
         IN IF r.r = "yield" THEN Yield([c.it EXCEPT !.a = r.it], r.w, r.v, r.f)
            ELSE Pass(c.it, r)
  ELSE Done(c.it, c.w, f)

\* condu: clause j is an array / the head of clause j (after goal.shift()),
\* called on s
IsArrayClause(it, w, j) == isClauseArray(ClausesOf(w, it.g)[j])
ConduHead(it, w, j) ==
  IF IsArrayClause(it, w, j)
    THEN Invoke(ClausesOf(w, it.g)[j].gs[1], it.s,
                SetClauses(w, it.g, [ClausesOf(w, it.g) EXCEPT
                                       ![j] = Clause(Tail(ClausesOf(w, it.g)[j].gs))]),
                it.p \o <<j, 1>>)
  ELSE Invoke(ClausesOf(w, it.g)[j], it.s, w, it.p \o <<j>>)
\* (..)(s).next()
PullOf(c, f) == Pull(c.it, c.w, f)

RECURSIVE RunCondu(_, _, _)
\* the head of clause j was resumed once, with result r:
\* if (!done) { yield* conj(...goal)(value); break }
ConduHeadPulled(it, j, r, arr) ==
  IF r.r = "done" THEN RunCondu(Called(it, r.w), r.f, j + 1)
  ELSE IF r.r # "yield" THEN Pass(it, r)
  ELSE IF ~arr THEN Yield(End(it), r.w, r.v, r.f)
  ELSE RunYieldStar(SetA(it, Invoke(conj(ClausesOf(r.w, it.g)[j].gs), r.v, r.w,
                                    it.p \o <<j, 2>>), 1), r.f)

\* for (const goal of goals) ..., from clause j on
RunCondu(c, f, j) ==
  IF c.it.pc = 1 THEN RunYieldStar(c, f)
  ELSE IF j > Len(ClausesOf(c.w, c.it.g)) THEN Done(c.it, c.w, f)
  ELSE IF IsArrayClause(c.it, c.w, j) /\ Len(ClausesOf(c.w, c.it.g)[j].gs) = 0
    THEN RunCondu(c, f, j + 1)
  ELSE ConduHeadPulled(c.it, j, PullOf(ConduHead(c.it, c.w, j), f),
                       IsArrayClause(c.it, c.w, j))

\* conda: goal[0](s) of the array clause j / goal(s) of the goal j
CondaHead(it, w, j) ==
  IF isClauseArray(it.g.gs[j])
    THEN Invoke(it.g.gs[j].gs[1], it.s, w, it.p \o <<j, 1>>)
  ELSE Invoke(it.g.gs[j], it.s, w, it.p \o <<j>>)
\* const rest = conj(...goal.slice(1)); rest(value), for the clause it.i
CondaRest(it, r) ==
  SetB([it EXCEPT !.a = r.it],
       Invoke(conj(Tail(it.g.gs[it.i].gs)), r.v, r.w, it.p \o <<it.i, 2>>))

RECURSIVE RunConda(_, _, _)
\* the head of clause j was resumed once, with result r
CondaHeadPulled(it, j, r) ==
  IF r.r = "done" THEN RunConda(Called(it, r.w), r.f, j + 1)
  ELSE IF r.r # "yield" THEN Pass(it, r)
  ELSE IF ~isClauseArray(it.g.gs[j]) THEN Yield(End(it), r.w, r.v, r.f)
  ELSE RunConda(CondaRest([it EXCEPT !.pc = 1, !.i = j], r), r.f, j)

\* conda: for (const goal of goals) ..., from clause j on; once a head has
\* yielded (pc = 1, a is `iter`, b the iterator of rest(value)):
\* yield* rest(value); for (const value of iter) yield* rest(value)
RunConda(c, f, j) ==
  IF c.it.pc = 1
    THEN IF c.it.b.k # "none"
           THEN LET r == Pull(c.it.b, c.w, f)
                IN IF r.r = "yield" THEN Yield([c.it EXCEPT !.b = r.it], r.w, r.v, r.f)
                   ELSE IF r.r = "done"
                     THEN RunConda(Called([c.it EXCEPT !.b = NoIt], r.w), r.f, j)
                   ELSE Pass(c.it, r)
         ELSE LET r == Pull(c.it.a, c.w, f)
              IN IF r.r # "yield" THEN Pass(c.it, r)
                 ELSE RunConda(CondaRest(c.it, r), r.f, j)
  ELSE IF j > Len(c.it.g.gs) THEN Done(c.it, c.w, f)
  ELSE IF isClauseArray(c.it.g.gs[j]) /\ Len(c.it.g.gs[j].gs) = 0
    THEN Throw(c.it, c.w, f)
  ELSE CondaHeadPulled(c.it, j, PullOf(CondaHead(c.it, c.w, j), f))

\* for (let i = start; i <= stop; i++) { t = unify(value, i, s); if (t) yield t }
\* (it.i counts the iterations done: the loop variable is start + it.i)
RECURSIVE RunBetween(_, _, _)
BetweenStep(it, w, f, t) ==
  IF t.r = "ok" THEN Yield([it EXCEPT !.pc = 1, !.i = @ + 1], w, t.s, f)
  ELSE IF t.r = "loop" THEN Stuck(it, w)
  ELSE RunBetween([it EXCEPT !.pc = 1, !.i = @ + 1], w, f - 1)
RunBetween(it, w, f) ==
  IF f = 0 THEN Stuck(it, w)
  ELSE IF ~Leq(Num(it.g.u.n + it.i), it.g.v) THEN Done(it, w, f)
  ELSE BetweenStep(it, w, f, unify(it.g.t, Num(it.g.u.n + it.i), it.s, w.arr))

\* sixes, first resumption: identical(s.x, 6)(s1)
SixesEnter(it, w) ==
  IF it.pc = 0
    THEN SetA(it, Invoke(identical(Get(it.g.a, "x"), Num(6)), it.s, w, it.p \o <<1>>), 1)
  ELSE Called(it, w)

\* yield* identical(s.x, 6)(s1); yield* sixes(s)(s1)
RECURSIVE RunSixes(_, _)
RunSixes(c, f) ==
  LET r == Pull(c.it.a, c.w, f)
  IN IF r.r = "yield" THEN Yield([c.it EXCEPT !.a = r.it], r.w, r.v, r.f)
     ELSE IF r.r = "done" /\ c.it.pc = 1
       THEN RunSixes(SetA(c.it, Invoke(sixes(c.it.g.a), c.it.s, r.w, c.it.p \o <<2>>), 2),
                     r.f)
     ELSE Pass(c.it, r)

\* varList(init), resumed once: the first time it yields `result`, the
\* array init; later it pushes a new Var to it and yields it again
VarList(it, w, init) ==
  IF it.pc = 0 THEN [w |-> Alloc(w, init), h |-> Len(w.arr) + 1]
  ELSE [w |-> PushVar(w, it.h), h |-> it.h]

\* listo(x) of a Var: v = walk(x, s);
\* for (const vars of varList()) yield extend(s, { [v.id]: vars })
ListoStep(it, w, f, v, n) ==
  IF v = Loop THEN Stuck(it, w)
  ELSE IF isVar(v)
    THEN Yield([it EXCEPT !.pc = 1, !.h = n.h], n.w, extend(it.s, Bind(v.id, Ref(n.h))), f)
  ELSE IF isArray(v) /\ it.pc = 0 THEN Yield([it EXCEPT !.pc = 2], w, it.s, f)
  ELSE Done(it, w, f)
RunListo(it, w, f) == ListoStep(it, w, f, walk(it.g.u, it.s), VarList(it, w, <<>>))

\* membero(el, list) of an array: for (const x of list) ...
RECURSIVE RunMemberoA(_, _, _)
\* a loop that returns after its first answer
MemberoStepOnce(it, w, f, r) ==
  IF r.r = "ok" THEN Yield(End(it), w, r.s, f)
  ELSE IF r.r = "loop" THEN Stuck(it, w)
  ELSE RunMemberoA([it EXCEPT !.pc = 1, !.i = @ + 1], w, f)

MemberoStep(it, w, f, r) ==
  IF r.r = "ok" THEN Yield([it EXCEPT !.pc = 1, !.i = @ + 1], w, r.s, f)
  ELSE IF r.r = "loop" THEN Stuck(it, w)
  ELSE RunMemberoA([it EXCEPT !.pc = 1, !.i = @ + 1], w, f)

RunMemberoA(it, w, f) ==
  IF it.i >= Len(Els(it.g.v, w.arr)) THEN Done(it, w, f)
  ELSE MemberoStep(it, w, f, unify(it.g.u, Els(it.g.v, w.arr)[it.i + 1], it.s, w.arr))

\* membero(el, list) of a Var: l = walk(list, s);
\* for (const result of varList([el])) yield extend(s, { [list.id]: result })
MemberoVStep(it, w, f, l, n) ==
  IF it.pc = 2 THEN RunYieldStar(Called(it, w), f)
  ELSE IF l = Loop THEN Stuck(it, w)
  ELSE IF isVar(l)
    THEN Yield([it EXCEPT !.pc = 1, !.h = n.h], n.w,
               extend(it.s, Bind(it.g.v.id, Ref(n.h))), f)
  ELSE IF isArray(l)
    THEN RunYieldStar(SetA(it, Invoke(membero(it.g.u, l), it.s, w, it.p \o <<1>>), 2), f)
  ELSE Done(it, w, f)
RunMemberoV(it, w, f) ==
  MemberoVStep(it, w, f, walk(it.g.v, it.s), VarList(it, w, <<it.g.u>>))

\* the array that the varList of a generator starts from, made
VarListInit(it, w) ==
  CASE it.k = "firsto" -> [w |-> w, els |-> <<it.g.u>>]
    [] it.k = "nthoIV" -> Suffixed(NewVars(w, it.g.u.n, <<>>), it.g.t)
    [] it.k = "appendoAVV" -> [w |-> w, els |-> <<>>]
Allocated(init) == [w |-> Alloc(init.w, init.els), h |-> Len(init.w.arr) + 1]
\* the next array `vars` of the varList: n is [w, h]
VarListNext(it, w) ==
  IF it.pc = 0 THEN Allocated(VarListInit(it, w))
  ELSE [w |-> PushVar(w, it.h), h |-> it.h]
\* the goal that the generator runs on s for the array `vars`
VarListGoal(it, w, h) ==
  CASE it.k = "firsto" -> identical(it.g.v, Ref(h))
    [] it.k = "nthoIV" -> identical(it.g.v, Ref(h))
    [] it.k = "appendoAVV" ->
         conj(<<identical(it.g.v, Ref(h)),
                identical(it.g.t, Arr(it.g.u.e \o w.arr[h]))>>)
VarListInvoke(it, n) ==
  SetA([it EXCEPT !.h = n.h],
       Invoke(VarListGoal(it, n.w, n.h), it.s, n.w, it.p \o <<1>>), 1)

\* for (const vars of varList(init)) yield* goal(vars)(s)
RECURSIVE RunVarList(_, _)
RunVarList(c, f) ==
  IF c.it.pc = 1
    THEN LET r == Pull(c.it.a, c.w, f)
         IN IF r.r = "yield" THEN Yield([c.it EXCEPT !.a = r.it], r.w, r.v, r.f)
            ELSE IF r.r = "done" THEN RunVarList(Called([c.it EXCEPT !.pc = 2], r.w), r.f)
            ELSE Pass(c.it, r)
  ELSE RunVarList(VarListInvoke(c.it, VarListNext(c.it, c.w)), f)

\* s = identical(list[start + i], suffix[i])(s).next().value, for each i
RECURSIVE FoldIdentical(_, _, _, _, _, _)
FoldIdentical(list, suffix, start, i, h, r) ==
  IF i > Len(suffix) \/ r.r # "ok" THEN r
  ELSE FoldIdentical(list, suffix, start, i + 1, h,
                     unify(list[start + i], suffix[i], r.s, h))

\* appendo(Var, array, array), the loop done with result r
AppendoVAAFolded(it, w, f, r) ==
  IF r.r = "loop" THEN Stuck(it, w)
  ELSE IF r.r = "fail" THEN Done(it, w, f)
  ELSE RunYieldStar(
         SetA(it, Invoke(identical(it.g.u,
                                   Arr(SliceTo(it.g.t.e, Len(it.g.t.e) - Len(it.g.v.e)))),
                         r.s, w, it.p \o <<1>>), 2), f)
RunAppendoVAA(it, w, f) ==
  IF it.pc = 2 THEN RunYieldStar(Called(it, w), f)
  ELSE AppendoVAAFolded(it, w, f,
         FoldIdentical(it.g.t.e, it.g.v.e, Len(it.g.t.e) - Len(it.g.v.e), 1,
                       w.arr, Ok(it.s)))

\* lengtho(Var, Var), first resumption: li = walk(list, s), le = walk(length, s);
\* both Vars: listo(list)(s) is iterated; otherwise lengtho(list, length)(s),
\* the same goal again, is delegated to (a recursion that no resumption
\* budget ends: the pull does not return an element)
LengthoEnter(it, w, li, le) ==
  IF it.pc # 0 THEN Called(it, w)
  ELSE IF isVar(li) /\ isVar(le)
    THEN SetA(it, Invoke(listo(it.g.u), it.s, w, it.p \o <<1>>), 1)
  ELSE SetA(it, Invoke(lengtho(it.g.u, it.g.v), it.s, w, it.p \o <<1>>), 2)

\* for (const t of listo(list)(s)) { yield extend(t, { [le.id]: len }); len++ }
RunLengthoVV(c, f) ==
  IF c.it.pc = 2 THEN RunYieldStar(c, f)
  ELSE LET r == Pull(c.it.a, c.w, f)
       IN IF r.r = "yield"
            THEN Yield([c.it EXCEPT !.a = r.it, !.i = @ + 1], r.w,
                       extend(r.v, Bind(walk(c.it.g.v, c.it.s).id, Big(c.it.i))), r.f)
          ELSE Pass(c.it, r)

\* stringChars(Var, array with Vars): yield* identical(str, walkRec(cs, s))(s)
\* stringChars(Var, Var): strGround = walkRec(str, s), csGround = walkRec(cs, s);
\* one of them ground: yield* stringChars(str, cs)(s), the same goal again;
\* otherwise throw
StringCharsEnter(it, w, strGround, csGround) ==
  IF it.pc # 0 THEN Called(it, w)
  ELSE IF it.k = "stringCharsAV"
    THEN SetA(it, Invoke(identical(it.g.u, csGround), it.s, w, it.p \o <<1>>), 1)
  ELSE IF (isGround(strGround) /\ strGround.k = "str")
            \/ (isGround(csGround) /\ isArray(csGround))
    THEN SetA(it, Invoke(stringChars(it.g.u, it.g.v), it.s, w, it.p \o <<1>>), 1)
  ELSE SetA(it, Called(Thrown(it.p \o <<1>>), w), 1)

\* numberChars(Var, cs not ground): d = walkRec(cs, s), x = walk(n, s);
\* if (isVar(x) && !isGround(d)) throw; yield* numberChars(d, x)(s), where
\* the call numberChars(d, x) may throw as well
NumberCharsEnter(it, w, d, x) ==
  IF it.pc # 0 THEN Called(it, w)
  ELSE IF (isVar(x) /\ ~isGround(d)) \/ numberChars(d, x).k = "raise"
    THEN SetA(it, Called(Thrown(it.p \o <<1>>), w), 1)
  ELSE SetA(it, Invoke(numberChars(d, x), it.s, w, it.p \o <<1>>), 1)

\* appendo(Var, ..): first resumption, listo(prefix)(s)
ListoEnter(it, w) ==
  IF it.pc = 0 THEN SetA(it, Invoke(listo(it.g.u), it.s, w, it.p \o <<1>>), 1)
  ELSE Called(it, w)

\* appendo(Var, array, Var): for (const t of listo(prefix)(s))
\*   yield* identical(list, [...t[prefix.id], ...suffix])(t)
RECURSIVE RunAppendoVAV(_, _)
RunAppendoVAV(c, f) ==
  IF c.it.b.k # "none"
    THEN LET r == Pull(c.it.b, c.w, f)
         IN IF r.r = "yield" THEN Yield([c.it EXCEPT !.b = r.it], r.w, r.v, r.f)
            ELSE IF r.r = "done"
              THEN RunAppendoVAV(Called([c.it EXCEPT !.b = NoIt], r.w), r.f)
            ELSE Pass(c.it, r)
  ELSE LET r == Pull(c.it.a, c.w, f)
       IN IF r.r # "yield" THEN Pass(c.it, r)
          ELSE IF ~isArray(Get(r.v, c.it.g.u.id)) THEN Throw(c.it, r.w, r.f)
          ELSE RunAppendoVAV(
                 SetB([c.it EXCEPT !.a = r.it],
                      Invoke(identical(c.it.g.t,
                                       Arr(Els(Get(r.v, c.it.g.u.id), r.w.arr)
                                           \o c.it.g.v.e)),
                             r.v, r.w, c.it.p \o <<2>>)),
                 r.f)

\* Object.assign({}, s, { [a]: x, [b]: y })
Assign2(s, a, x, b, y) == extend(extend(s, Bind(a, x)), Bind(b, y))

\* the loop with i < list.length: the last split is left out
RunAppendoVVAShort(it, w, f) ==
  IF it.i >= Len(it.g.t.e) THEN Done(it, w, f)
  ELSE Yield([it EXCEPT !.pc = 1, !.i = @ + 1], w,
             Assign2(it.s, it.g.u.id, Arr(SliceTo(it.g.t.e, it.i)),
                     it.g.v.id, Arr(SliceFrom(it.g.t.e, it.i))), f)

\* appendo(Var, Var, array): for (let i = 0; i <= list.length; ++i) ...
RunAppendoVVA(it, w, f) ==
  IF it.i > Len(it.g.t.e) THEN Done(it, w, f)
  ELSE Yield([it EXCEPT !.pc = 1, !.i = @ + 1], w,
             Assign2(it.s, it.g.u.id, Arr(SliceTo(it.g.t.e, it.i)),
                     it.g.v.id, Arr(SliceFrom(it.g.t.e, it.i))), f)

\* appendo(Var, Var, Var): for (const t of listo(prefix)(s)) ...
RunAppendoVVV(c, f) ==
  LET r == Pull(c.it.a, c.w, f)
  IN IF r.r = "yield"
       THEN Yield([c.it EXCEPT !.a = r.it], r.w,
                  Assign2(r.v, c.it.g.v.id, Arr(<<>>), c.it.g.t.id, c.it.g.u), r.f)
     ELSE Pass(c.it, r)

\* ntho(Var, array, Var): the conj of the next i, called
NthoNext(it, w) ==
  IF it.i >= Len(it.g.v.e) THEN Called([it EXCEPT !.pc = 1, !.a = NoIt], w)
  ELSE SetA(it, Invoke(conj(<<identical(it.g.u, Num(it.i)),
                              identical(it.g.t, it.g.v.e[it.i + 1])>>),
                       it.s, w, it.p \o <<it.i + 1>>), 1)
NthoEnter(it, w) == IF it.pc = 0 THEN NthoNext(it, w) ELSE Called(it, w)

\* ntho(Var, array, Var): for (let i = 0; i < list.length; ++i)
\*   yield* conj(identical(n, i), identical(el, list[i]))(s)
RECURSIVE RunNthoVAV(_, _)
RunNthoVAV(c, f) ==
  IF c.it.a.k = "none" THEN Done(c.it, c.w, f)
  ELSE LET r == Pull(c.it.a, c.w, f)
       IN IF r.r = "yield" THEN Yield([c.it EXCEPT !.a = r.it], r.w, r.v, r.f)
          ELSE IF r.r = "done"
            THEN RunNthoVAV(NthoNext([c.it EXCEPT !.i = @ + 1], r.w), r.f)
          ELSE Pass(c.it, r)

\* ntho(Var, array, el): if (list[i] === el) yield extend(s, { [n.id]: i })
RECURSIVE RunNthoVAG(_, _, _)
RunNthoVAG(it, w, f) ==
  IF it.i >= Len(it.g.v.e) THEN Done(it, w, f)
  ELSE IF StrictEq(it.g.v.e[it.i + 1], it.g.t)
    THEN Yield([it EXCEPT !.pc = 1, !.i = @ + 1], w,
               extend(it.s, Bind(it.g.u.id, Num(it.i))), f)
  ELSE RunNthoVAG([it EXCEPT !.pc = 1, !.i = @ + 1], w, f)

\* ntho(Var, Var, el): for (const tail of varList([el]))
\*   for (const head of varList()) yield extend(s, { ... })
\* (the inner loop never ends; tail is the array it.h, head the array it.i)
NthoVVStep(it, w1, f, tl, hd) ==
  Yield([it EXCEPT !.pc = 1, !.h = tl, !.i = hd], w1,
        Assign2(it.s, it.g.v.id, Arr(w1.arr[hd] \o w1.arr[tl]),
                it.g.u.id, Num(Len(w1.arr[hd]) + Len(w1.arr[tl]))), f)
RunNthoVV(it, w, f) ==
  IF it.pc = 0
    THEN NthoVVStep(it, Alloc(Alloc(w, <<it.g.t>>), <<>>), f,
                    Len(w.arr) + 1, Len(w.arr) + 2)
  ELSE NthoVVStep(it, PushVar(w, it.i), f, it.h, it.i)

\* the body of the generator it, resumed
Resume(it, w, f) ==
  CASE it.k = "ended" -> Done(it, w, f)
    [] it.k = "succeed" -> Yield(End(it), w, it.s, f)
    [] it.k = "fail" -> Done(it, w, f)
    [] it.k = "identical" ->
         RunIdentical(it, w, f, unify(it.g.u, it.g.v, it.s, w.arr))
    [] it.k = "identicalCheck" ->
         RunIdentical(it, w, f, unifyCheck(it.g.u, it.g.v, it.s, w.arr))
    [] it.k = "conj" -> RunConj(ConjEnter(it, w), f)
    [] it.k \in {"disj", "conde"} -> RunDisj(DisjEnter(it, w), f)
    [] it.k \in {"disji", "condi"} -> RunDisji(DisjiEnter(it, w), f)
    [] it.k = "take" -> RunTake(ConjEnter(it, w), f)
    [] it.k = "conda" -> RunConda(Called(it, w), f, 1)
    [] it.k = "condu" -> RunCondu(Called(it, w), f, 1)
    [] it.k = "betweenGGV" -> RunBetween(it, w, f)
    [] it.k = "sixes" -> RunSixes(SixesEnter(it, w), f)
    [] it.k = "listo" -> RunListo(it, w, f)
    [] it.k = "lengthoVV" ->
         RunLengthoVV(LengthoEnter(it, w, walk(it.g.u, it.s), walk(it.g.v, it.s)), f)
    [] it.k \in {"stringCharsAV", "stringCharsVV"} ->
         RunYieldStar(StringCharsEnter(it, w, walkRec(it.g.u, it.s, w.arr),
                                       walkRec(it.g.v, it.s, w.arr)), f)
    [] it.k = "numberChars" ->
         RunYieldStar(NumberCharsEnter(it, w, walkRec(it.g.v, it.s, w.arr),
                                       walk(it.g.u, it.s)), f)
    [] it.k = "filter" ->
         IF isGround(it.g.u) THEN Yield(End(it), w, it.s, f) ELSE Done(it, w, f)
    [] it.k = "memberoA" -> RunMemberoA(it, w, f)
    [] it.k = "memberoV" -> RunMemberoV(it, w, f)
    [] it.k \in {"firsto", "nthoIV", "appendoAVV"} -> RunVarList(Called(it, w), f)
    [] it.k = "appendoVAA" -> RunAppendoVAA(it, w, f)
    [] it.k = "appendoVAV" -> RunAppendoVAV(ListoEnter(it, w), f)
    [] it.k = "appendoVVA" -> RunAppendoVVA(it, w, f)
    [] it.k = "appendoVVV" -> RunAppendoVVV(ListoEnter(it, w), f)
    [] it.k = "nthoVAV" -> RunNthoVAV(NthoEnter(it, w), f)
    [] it.k = "nthoVAG" -> RunNthoVAG(it, w, f)
    [] it.k = "nthoVV" -> RunNthoVV(it, w, f)

\* the result r of a resumption, logged under the path of the generator
Logged(it, r) == [r EXCEPT !.w = Log(@, r.r, it.p)]

\* iter.next(): one resumption of the generator, logged under its path
\* (a generator that walks a Var in the State undefined throws a TypeError)
Pull(it, w, f) ==
  IF it.k = "thrown" THEN Res(it, w, "throw", emptyState, f)
  ELSE IF f = 0 THEN Stuck(it, w)
  ELSE IF it.k \in {"listo", "lengthoVV", "betweenGGV", "stringCharsAV",
                    "stringCharsVV", "numberChars"} /\ it.s = Undef
    THEN Logged(it, Throw(it, Log(w, "next", it.p), f - 1))
  ELSE Logged(it, Resume(it, Log(w, "next", it.p), f - 1))

(***************************************************************************)
(* The unify machine: the pure functions unify and unifyCheck applied to   *)
(* enumerated arguments, on the substitutions earlier calls produced.      *)
(***************************************************************************)
X == Var("x")
Y == Var("y")
\* a variable made by `new Var()`: it is in no State until something binds it
Anon == Var("_1")
One == Num(1)

\* the State fresh(["x", "y"], gc) builds: every id bound to its own Var
freshState(ids) == [id \in ids |-> Var(id)]

Leaves == {X, Y, Anon, One}
SeqsOver(S) == UNION {[1..n -> S] : n \in 0..MaxLen}
\* the arguments of the call under study: atoms, variables (named, and one
\* that is in no State), and sequences of them, one level nested
UTerms == Leaves \cup {Arr(e) : e \in SeqsOver({X, Y, One, Arr(<<Y>>)})}
\* what an earlier goal identical(x, t) of a conjunction binds x or y to
SetupTerms == {X, Y, One, Arr(<<X>>), Arr(<<Y>>), Arr(<<One>>)}

NoCall == [op |-> "none", u |-> Undef, v |-> Undef, s |-> emptyState, r |-> "none"]

UInit ==
  /\ sub = freshState({"x", "y"})
  /\ call = NoCall
  /\ ctor = [f |-> "none", args |-> <<>>, n |-> 0]
  /\ goal = fail
  /\ st0 = emptyState
  /\ strm = <<>>
  /\ world = World0

\* an earlier goal of a conjunction, identical(x, t): it shapes the State the
\* call under study starts from (unify binds unbound variables only, so the
\* States reachable this way are finitely many)
Setup ==
  /\ call = NoCall
  /\ \E u \in {X, Y}, v \in SetupTerms :
       LET res == unify(u, v, sub, <<>>)
       IN /\ res.r = "ok"
          /\ sub' = res.s
  /\ UNCHANGED <<call, svars>>

Apply(op, u, v, res) ==
  /\ call' = [op |-> op, u |-> u, v |-> v, s |-> sub, r |-> res.r]
  /\ sub' = IF res.r = "ok" THEN res.s ELSE sub

CallUnify ==
  /\ call = NoCall
  /\ \E u \in UTerms, v \in UTerms :
       Apply("unify", u, v, unify(u, v, sub, <<>>))
  /\ UNCHANGED svars

CallUnifyCheck ==
  /\ call = NoCall
  /\ \E u \in UTerms, v \in UTerms :
       Apply("unifyCheck", u, v, unifyCheck(u, v, sub, <<>>))
  /\ UNCHANGED svars

UNext == Setup \/ CallUnify \/ CallUnifyCheck

SpecUnify == UInit /\ [][UNext]_vars

(***************************************************************************)
(* Claims about unify and unifyCheck (checked under SpecUnify).            *)
(***************************************************************************)
UnifySucceeded == call.op = "unify" /\ call.r = "ok"

\* C1, as stated: whenever unify(u, v, s) returns s', walk(u, s') and
\* walk(v, s') are structurally equal, sequences included.
C1_WalkEqual ==
  UnifySucceeded => walk(call.u, sub) = walk(call.v, sub)

\* C1, amended: whenever unify(u, v, s) returns s', the deep walks
\* walk*(u, s') and walk*(v, s') are structurally equal if they terminate,
\* and the plain walks are equal unless both are sequences.
C1_WalkRecEqual ==
  UnifySucceeded =>
    LET a == walkRec(call.u, sub, <<>>)
        b == walkRec(call.v, sub, <<>>)
        wu == walk(call.u, sub)
        wv == walk(call.v, sub)
    IN /\ (a # Loop /\ b # Loop) => a = b
       /\ ~(isArray(wu) /\ isArray(wv)) => wu = wv

\* unify has bound a variable that is an element of one of the sequences:
\* the plain walks differ, the deep walks exist
C1_Witness ==
  /\ UnifySucceeded
  /\ sub # call.s
  /\ isArray(call.u) /\ isArray(call.v)
  /\ walk(call.u, sub) # walk(call.v, sub)
  /\ walkRec(call.u, sub, <<>>) # Loop

\* C3: unifyCheck applied to an acyclic substitution never returns a cyclic
\* one.
C3_NeverCyclic ==
  (call.op = "unifyCheck" /\ call.r = "ok" /\ ~Cyclic(call.s, <<>>))
    => ~Cyclic(sub, <<>>)

(***************************************************************************)
(* The stream machine: a consumer builds a goal with one constructor call, *)
(* invokes it on a State, twice, and pulls the two resulting streams, in   *)
(* any interleaving.                                                       *)
(***************************************************************************)
\* run(count, goal1, state): an argument that is not given is undefined. The
\* result is the goal that run calls and the State it calls it with; with a
\* goal as first argument the State is the second argument, given or not
run(count, goal1, state) ==
  IF count.k = "num" /\ goal1.k \notin {"var", "num", "str", "seq", "undef"}
    THEN [goal |-> take(count.n, goal1, 1),
          state |-> IF state = Undef THEN emptyState ELSE state]
  ELSE IF count.k \notin {"var", "num", "str", "seq", "undef"}
    THEN [goal |-> count, state |-> goal1]
  ELSE [goal |-> Raise, state |-> Undef]

\* the constructor call ctor, evaluated: an argument expression that throws
\* makes the whole expression throw
Build(c) ==
  IF \E i \in 1..Len(c.args) : c.args[i].k = "raise" THEN Raise ELSE
  CASE c.f = "goal" -> c.args[1]
    [] c.f = "succo" -> succo(c.args[1], c.args[2])
    [] c.f = "pluso" -> pluso(c.args[1], c.args[2], c.args[3])
    [] c.f = "conj" -> conj(c.args)
    [] c.f = "disj" -> disj(c.args)
    [] c.f = "disji" -> disji(c.args)
    [] c.f = "conde" -> conde(c.args)
    [] c.f = "condi" -> condi(c.args)
    [] c.f = "conda" -> conda(c.args)
    [] c.f = "condu" -> condu(c.args, 1)
    [] c.f = "take" -> take(c.n, c.args[1], 1)
    [] c.f = "listo" -> listo(c.args[1])
    [] c.f = "groundo" -> groundo(c.args[1])
    [] c.f = "run" ->
         run(c.args[1], IF Len(c.args) > 1 THEN c.args[2] ELSE Undef, Undef).goal
    [] c.f = "numberChars" -> numberChars(c.args[1], c.args[2])
    [] c.f = "conso" -> conso(c.args[1], c.args[2], c.args[3])
    [] c.f = "stringChars" -> stringChars(c.args[1], c.args[2])
    [] c.f = "lengtho" -> lengtho(c.args[1], c.args[2])
    [] c.f = "membero" -> membero(c.args[1], c.args[2])
    [] c.f = "firsto" -> firsto(c.args[1], c.args[2])
    [] c.f = "appendo" -> appendo(c.args[1], c.args[2], c.args[3])
    [] c.f = "ntho" -> ntho(c.args[1], c.args[2], c.args[3])

Call(f, args, n) == [f |-> f, args |-> args, n |-> n]

\* a State with its arrays copied out of the heap: what the consumer sees
\* when it looks at a State it was given
RECURSIVE Deref(_, _, _)
Deref(t, h, d) ==
  IF isArray(t) /\ d > 0
    THEN Arr([i \in 1..Len(Els(t, h)) |-> Deref(Els(t, h)[i], h, d - 1)])
    ELSE t
Look(s, h) == [id \in DOMAIN s |-> Deref(s[id], h, MaxNest)]

\* a stream that the consumer has not asked for yet
NoStream == [it |-> NoIt, st |-> "none", out |-> <<>>, seen |-> <<>>, log |-> <<>>]
Stream0(i) == [it |-> i.it, st |-> IF i.it.k = "thrown" THEN "throw" ELSE "active",
               out |-> <<>>, seen |-> <<>>, log |-> i.w.log]
\* the streams the consumer has asked for
Started == {k \in 1..Len(strm) : strm[k].st # "none"}

\* the call i of the goal made stream k
Invoked(k, i) ==
  /\ strm' = [strm EXCEPT ![k] = Stream0(i)]
  /\ world' = [i.w EXCEPT !.log = <<>>]

\* goal(st0): the consumer invokes the goal, for its next stream
RunGoal ==
  /\ goal.k # "raise"
  /\ \E k \in 1..Len(strm) :
       /\ strm[k].st = "none"
       /\ \A j \in 1..(k - 1) : strm[j].st # "none"
       /\ Invoked(k, Invoke(goal, st0, world, <<>>))
  /\ UNCHANGED <<uvars, ctor, goal, st0>>

\* the resumption of stream i returned r (or did not return)
Pulled(i, r) ==
  /\ strm' = [strm EXCEPT ![i] =
                [it |-> r.it,
                 st |-> IF r.r = "yield" THEN "active" ELSE r.r,
                 out |-> IF r.r = "yield" THEN Append(@.out, r.v) ELSE @.out,
                 seen |-> IF r.r = "yield"
                            THEN Append(@.seen, Look(r.v, r.w.arr)) ELSE @.seen,
                 log |-> r.w.log]]
  /\ world' = [r.w EXCEPT !.log = <<>>]

\* iter.next() on stream i
PullStream(i) ==
  /\ strm[i].st = "active"
  /\ Len(strm[i].out) < MaxPulls
  /\ Pulled(i, Pull(strm[i].it, [world EXCEPT !.log = strm[i].log], Fuel))
  /\ UNCHANGED <<uvars, ctor, goal, st0>>

PullAny == \E i \in 1..Len(strm) : PullStream(i)

XY == freshState({"x", "y"})

\* the goals used as clauses and conjuncts: finite streams of 0 to 3
\* elements and infinite ones
Eq(v, i) == identical(v, Num(i))
Finite == {succeed, fail, Eq(X, 1), Eq(X, 2), Eq(Y, 1),
           disj(<<Eq(X, 1), Eq(X, 2)>>),
           disj(<<Eq(X, 3), Eq(X, 4), Eq(X, 5)>>),
           between(Num(1), Num(2), Y)}
Infinite == {fives(XY), sixes(XY), between(Num(1), Infinity, X)}
Clauses == Finite \cup Infinite

\* argument lists of three goals, and clause arrays [g, h] for conde / condi
Triples == {<<fives(XY), Eq(X, 1), disj(<<Eq(X, 3), Eq(X, 4), Eq(X, 5)>>)>>,
            <<Eq(X, 1), fail, sixes(XY)>>,
            <<disj(<<Eq(X, 1), Eq(X, 2)>>), between(Num(1), Num(2), Y), Eq(Y, 1)>>,
            <<between(Num(1), Infinity, X), Eq(Y, 1), fail>>,
            <<disj(<<Eq(X, 1), Eq(X, 2)>>), Eq(Y, 1), fail>>,
            <<succeed, fail, Eq(X, 1)>>}
Arrays == {<<Clause(<<disj(<<Eq(X, 1), Eq(X, 2)>>), between(Num(1), Num(2), Y)>>), Eq(X, 3)>>,
           <<Clause(<<Eq(X, 1), Eq(Y, 1)>>), Clause(<<Eq(X, 2), Eq(Y, 1)>>)>>,
           <<Eq(X, 2), Clause(<<between(Num(1), Infinity, X), Eq(Y, 1)>>), Eq(Y, 1)>>,
           <<Clause(<<Eq(X, 2), Eq(Y, 1)>>), Eq(X, 1)>>}

\* clauses for conda: a head that yields twice with a tail that fails for
\* every element, a first head that fails, single clauses
CondaArrays == {<<Clause(<<disj(<<Eq(X, 1), Eq(X, 2)>>), fail>>), Eq(X, 3)>>,
                <<Clause(<<Eq(X, 2), Eq(Y, 1)>>),
                  Clause(<<disj(<<Eq(X, 1), Eq(X, 2)>>), Eq(Y, 1)>>), Eq(X, 3)>>,
                <<Clause(<<disj(<<Eq(X, 1), Eq(X, 2)>>)>>), Eq(X, 3)>>,
                <<Clause(<<disj(<<Eq(X, 1), Eq(X, 2)>>), between(Num(1), Num(2), Y)>>)>>,
                <<disj(<<Eq(X, 1), Eq(X, 2)>>)>>}

Calls ==
  {Call("goal", <<g>>, 0) : g \in Clauses}
  \cup {Call("conda", a, 0) : a \in Triples \cup Arrays \cup CondaArrays}
  \cup {Call(f, <<a, b>>, 0) : f \in {"conj", "disj", "disji"}, a \in Clauses, b \in Clauses}
  \cup {Call("conj", a, 0) : a \in {<<>>, <<Eq(X, 1)>>, <<fives(XY)>>}}
  \cup {Call(f, a, 0) : f \in {"conj", "disj", "disji", "conde", "condi"}, a \in Triples}
  \cup {Call(f, a, 0) : f \in {"conde", "condi", "condu"}, a \in Arrays}
  \cup {Call("take", <<g>>, n) : g \in {succeed, disj(<<Eq(X, 1), Eq(X, 2)>>), fives(XY)},
                                 n \in 1..2}

States0 == {XY, extend(XY, Bind("x", One))}

\* calls of the relational library, on terms
L1 == Arr(<<One>>)
L12 == Arr(<<One, Num(2)>>)
LibTerms == {X, Y, L1, L12}
LibCalls ==
  {Call("listo", <<a>>, 0) : a \in {X, L1, One}}
  \cup {Call("membero", a, 0) : a \in {<<One, X>>, <<Y, X>>, <<X, L12>>, <<One, One>>,
                                       <<One, Arr(<<One, Y>>)>>, <<X, Arr(<<One, One>>)>>}}
  \cup {Call("firsto", a, 0) : a \in {<<One, X>>, <<Y, X>>, <<X, L12>>, <<X, Arr(<<>>)>>}}
  \cup {Call("appendo", <<a, b, c>>, 0) : a \in LibTerms, b \in LibTerms, c \in LibTerms}
  \cup {Call("ntho", a, 0) : a \in {<<Num(0), L12, X>>, <<Num(1), L12, Num(2)>>,
                                    <<Num(2), L12, X>>, <<Num(1), X, One>>,
                                    <<X, L12, Y>>, <<X, L12, Num(2)>>,
                                    <<X, Y, One>>, <<One, One, One>>}}
  \cup {Call("groundo", <<a>>, 0) : a \in {X, One, L1, Arr(<<X>>), Arr(<<X, One>>)}}
  \cup {Call("lengtho", <<a, b>>, 0) : a \in {X, L1, L12}, b \in {Y, One, Num(2), Big(2)}}
  \cup {Call("succo", a, 0) : a \in {<<X, Y>>, <<One, Y>>, <<X, Num(2)>>, <<One, Num(2)>>}}
  \cup {Call("pluso", a, 0) : a \in {<<One, Num(2), X>>, <<One, X, Num(2)>>,
                                     <<X, One, Num(2)>>, <<X, Y, Num(2)>>}}
  \cup {Call("conj", <<Eq(X, 1), succo(a, Y)>>, 0) : a \in {X, One}}
  \cup {Call("conj", <<lengtho(X, Num(n)), identical(X, l)>>, 0) :
          n \in 0..2, l \in {Arr(<<>>), L1, L12}}
  \cup {Call("conj", <<firsto(One, X), identical(X, L12)>>, 0)}
  \cup {Call("goal", <<identical(a[1], a[2])>>, 0) :
          a \in {<<L1, L12>>, <<Arr(<<X>>), L12>>, <<Arr(<<X, Y>>), L1>>, <<X, L12>>,
                 <<Arr(<<>>), Arr(<<Y>>)>>, <<Arr(<<Y, L1>>), Arr(<<One, L12>>)>>}}
\* States that bind x to a number, to the unbound y, to a list
LibStates == States0 \cup {extend(XY, Bind("x", Y)), extend(XY, Bind("x", L1))}

\* calls that relate strings and numbers to lists of characters, and States
\* that bind x or y to a string, a character, a list of characters
CharCalls ==
  {Call("stringChars", <<a, b>>, 0) :
     a \in {X, Str("ab"), Str("a")},
     b \in {Y, Arr(<<Str("a"), Str("b")>>), Arr(<<Y, Str("b")>>), Arr(<<>>)}}
  \cup {Call("goal", <<identical(a, b)>>, 0) :
          a \in {X, Str("ab"), Str("a")},
          b \in {Y, Arr(<<Str("a"), Str("b")>>), Arr(<<Str("a")>>)}}
  \cup {Call("numberChars", <<a, b>>, 0) :
          a \in {X, Num(12)},
          b \in {Y, Arr(<<Str("1"), Str("2")>>), Arr(<<Y, Str("2")>>)}}
CharStates ==
  {XY, extend(XY, Bind("y", Str("a"))), extend(XY, Bind("x", Str("ab"))),
   extend(XY, Bind("y", Arr(<<Str("a"), Str("b")>>))),
   extend(XY, Bind("y", Arr(<<Str("1"), Str("2")>>))),
   extend(XY, Bind("y", Str("1")))}

\* calls of run without a State, with and without a count
RunGoals ==
  {succeed, fail, identical(One, One), disj(<<succeed, identical(One, One)>>),
   membero(One, L12), listo(X), appendo(X, L1, Y), firsto(One, X)}
RunCalls ==
  {Call("run", <<g>>, 0) : g \in RunGoals}
  \cup {Call("run", <<Num(n), g>>, 0) : n \in 0..2, g \in RunGoals}

\* conjunctions of identical(x, y) and a library goal on x, y and a third
\* variable z, all three fresh
Z == Var("z")
AliasCalls ==
  {Call("goal", <<conj(<<identical(X, Y), g>>)>>, 0) :
     g \in {appendo(X, Z, Y), appendo(L1, Z, X), listo(X), membero(Z, Y)}}

\* calls of conso with the list, the rest or the first element unknown, on
\* States that bind x to a list and y to the rest of one
ConsoCalls ==
  {Call("conso", <<a, b, c>>, 0) :
     a \in {One, Z}, b \in {Y, Arr(<<Num(2)>>)}, c \in {X, Arr(<<>>), L1, L12}}
  \cup {Call("conso", <<One, One, L1>>, 0)}
ConsoStates ==
  {extend(freshState({"x", "y", "z"}), b) :
     b \in {<<>>, Bind("x", Arr(<<>>)), Bind("x", L12), Bind("y", Arr(<<Num(2)>>))}}

SInit ==
  /\ sub = emptyState
  /\ call = NoCall
  /\ \/ ctor \in Calls /\ st0 \in States0
     \/ ctor \in LibCalls /\ st0 \in LibStates
     \/ ctor \in CharCalls /\ st0 \in CharStates
     \/ /\ ctor \in RunCalls
        /\ st0 = run(ctor.args[1], IF Len(ctor.args) > 1 THEN ctor.args[2] ELSE Undef,
                     Undef).state
     \/ ctor \in AliasCalls /\ st0 = freshState({"x", "y", "z"})
     \/ ctor \in ConsoCalls /\ st0 \in ConsoStates
  /\ goal = Build(ctor)
  /\ strm = <<NoStream, NoStream>>
  /\ world = World0

SNext == RunGoal \/ PullAny

Spec == SInit /\ [][SNext]_vars

(***************************************************************************)
(* The streams a goal denotes: the first n elements of g(s), as a consumer *)
(* that pulls n times reads them, and how the stream stands after that     *)
(* ("active": more pulls are possible, "done", "throw", "loop").           *)
(***************************************************************************)
RECURSIVE DrainN(_, _, _)
Drained(n, acc, r) ==
  IF r.r = "yield"
    THEN DrainN(Called(r.it, r.w), n - 1, Append(acc, Look(r.v, r.w.arr)))
  ELSE [out |-> acc, st |-> r.r]
DrainN(c, n, acc) ==
  IF n = 0 THEN [out |-> acc, st |-> "active"]
  ELSE Drained(n, acc, Pull(c.it, c.w, Fuel))

Stream(g, s, n) == DrainN(Invoke(g, s, World0, <<>>), n, <<>>)

\* deep enough for every element that MaxPulls pulls can reach
Depth == MaxPulls + 1

Min(a, b) == IF a <= b THEN a ELSE b
IsPrefix(a, b) == Len(a) <= Len(b) /\ SubSeq(b, 1, Len(a)) = a
\* the clause indexes that the yields of the clauses of a stream came from
Prov(log) ==
  LET ys == SelectSeq(log, LAMBDA e : e[1] = "yield" /\ Len(e[2]) = 1)
  IN [j \in 1..Len(ys) |-> ys[j][2][1]]
\* the number of events e at path p among the first n of a log
RECURSIVE Count(_, _, _, _)
Count(log, e, p, n) ==
  IF n = 0 THEN 0
  ELSE Count(log, e, p, n - 1) + (IF log[n] = <<e, p>> THEN 1 ELSE 0)

\* the streams of the clauses (or conjuncts) of the constructor call on st0
ClauseStreams ==
  [c \in 1..Len(ctor.args) |-> Stream(clauseGoal(ctor.args[c]), st0, Depth)]
AllDone(cs) == \A c \in 1..Len(cs) : cs[c].st = "done"
Productive(cs) == \A c \in 1..Len(cs) : cs[c].st \in {"active", "done"}
\* what stream k yielded, each element with the clause it came from
Tagged(k) ==
  [j \in 1..Len(strm[k].seen) |-> <<Prov(strm[k].log)[j], strm[k].seen[j]>>]
Agree(a, b) == \A j \in 1..Min(Len(a), Len(b)) : a[j] = b[j]

RECURSIVE SeqMax(_), SeqMin(_)
SeqMax(q) == IF Len(q) = 0 THEN 0
             ELSE IF Head(q) >= SeqMax(Tail(q)) THEN Head(q) ELSE SeqMax(Tail(q))
SeqMin(q) == IF Len(q) = 1 THEN Head(q) ELSE Min(Head(q), SeqMin(Tail(q)))

\* round r of a round-robin: the r-th element of every clause that has one
Round(cs, r) ==
  LET idx == SelectSeq([c \in 1..Len(cs) |-> c], LAMBDA c : Len(cs[c].out) >= r)
  IN [j \in 1..Len(idx) |-> <<idx[j], cs[idx[j]].out[r]>>]
RECURSIVE Rounds(_, _)
Rounds(cs, r) == IF r = 0 THEN <<>> ELSE Rounds(cs, r - 1) \o Round(cs, r)
\* the rounds that the known prefixes of the clause streams determine
RoundRobin(cs) ==
  LET open == SelectSeq(cs, LAMBDA c : c.st # "done")
  IN Rounds(cs, IF Len(open) = 0 THEN SeqMax([c \in 1..Len(cs) |-> Len(cs[c].out)])
                ELSE SeqMin([c \in 1..Len(open) |-> Len(open[c].out)]))

Interleaved == ctor.f \in {"disji", "condi"}

\* C6: disji / condi yield in strict round-robin: what a stream has yielded
\* is the round-robin merge of the clause streams, element by element and
\* clause by clause (each clause element once, in its clause's order); the
\* stream ends only when every clause is exhausted and all was yielded, and
\* never yields more than the clauses hold.
Merged(cs, rr) ==
  \A k \in Started :
    /\ Len(Prov(strm[k].log)) = Len(strm[k].seen)
    /\ Agree(Tagged(k), rr)
    /\ strm[k].st = "done" => AllDone(cs) /\ Tagged(k) = rr
    /\ AllDone(cs) => IsPrefix(Tagged(k), rr) /\ strm[k].st \in {"active", "done"}
    /\ Productive(cs) => strm[k].st \in {"active", "done"}
RoundRobinOf(cs) == Merged(cs, RoundRobin(cs))
C6_RoundRobin == Interleaved => RoundRobinOf(ClauseStreams)

\* C6 witness: a stream of three clauses of unequal lengths has ended: the
\* third clause was exhausted at once and skipped, the second after its one
\* element, the first yielded around it
C6_Witness ==
  /\ Interleaved
  /\ Len(ctor.args) = 3
  /\ \E k \in Started :
       /\ strm[k].st = "done"
       /\ Prov(strm[k].log) = <<1, 2, 1>>
       /\ strm[k].seen[1] # strm[k].seen[3]

\* C7: fairness of disji with m clauses whose pulls all return: the d-th
\* element of any clause stream (depth d - 1) is among the first m * d
\* elements of the combined stream, once that many pulls have returned or
\* the stream has ended, and the pulls of the combined stream return too.
FairOver(cs) ==
  Productive(cs) =>
    \A k \in Started :
      /\ strm[k].st \in {"active", "done"}
      /\ \A c \in 1..Len(cs) : \A d \in 1..Len(cs[c].out) :
           (Len(strm[k].seen) >= Len(cs) * d \/ strm[k].st = "done") =>
             \E j \in 1..Min(Len(cs) * d, Len(strm[k].seen)) :
               strm[k].seen[j] = cs[c].out[d] /\ Prov(strm[k].log)[j] = c
SecondSeen(cs) ==
  \E k \in Started : \E c, e \in 1..Len(cs) :
    /\ cs[c].st = "active"
    /\ cs[e].st = "done"
    /\ Len(cs[e].out) >= 2
    /\ Len(strm[k].seen) >= 2 * Len(cs)
    /\ \E j \in 1..(2 * Len(cs)) : strm[k].seen[j] = cs[e].out[2]
RECURSIVE Chain(_, _)
Chain(cs, c) ==
  IF c > Len(cs) THEN <<>>
  ELSE [j \in 1..Len(cs[c].out) |-> <<c, cs[c].out[j]>>]
       \o (IF cs[c].st = "done" THEN Chain(cs, c + 1) ELSE <<>>)

Sequential == ctor.f \in {"disj", "conde"}

\* C8: disj / conde yield the clause streams one after the other, each in
\* its own order; no clause is called or pulled before the clause before it
\* has ended (so nothing after an infinite clause is ever reached), and the
\* stream ends only when every clause has ended and all was yielded.
Chained(cs, ch) ==
  \A k \in Started :
    /\ Len(Prov(strm[k].log)) = Len(strm[k].seen)
    /\ IsPrefix(Tagged(k), ch)
    /\ strm[k].st = "done" => AllDone(cs) /\ Tagged(k) = ch
    /\ Productive(cs) => strm[k].st \in {"active", "done"}
    /\ \A e \in 1..Len(strm[k].log) :
         LET p == strm[k].log[e][2]
         IN (Len(p) > 0 /\ p[1] > 1) =>
              Count(strm[k].log, "done", <<p[1] - 1>>, e - 1) = 1
ChainOf(cs) == Chained(cs, Chain(cs, 1))
C8_Sequential == Sequential => ChainOf(ClauseStreams)

\* C8 witness: a stream has yielded all of its first clause, two elements,
\* and then an element of its second
C8_Witness ==
  /\ Sequential
  /\ \E k \in Started :
       /\ Len(strm[k].seen) >= 3
       /\ SubSeq(Prov(strm[k].log), 1, 3) = <<1, 1, 2>>

\* for each element of the outer stream in order, the stream of g2 on it,
\* up to the first of these that does not end
\* (lex is [out, st]: st is "done" while every stream so far has ended)
RECURSIVE Lex(_, _, _, _)
LexStep(lex, inn) ==
  [out |-> lex.out \o inn.out, st |-> IF inn.st = "done" THEN lex.st ELSE "open"]
Lex(outer, g2, k, lex) ==
  IF k > Len(outer.out) \/ lex.st # "done" THEN lex
  ELSE Lex(outer, g2, k + 1, LexStep(lex, Stream(g2, outer.out[k], Depth)))

\* C9: conj(g1, g2) yields, for each element s1 of g1(s) in order, the
\* elements of g2(s1) in order and nothing else; g1 is pulled again only
\* when the stream of g2 on its last element has ended; the stream ends only
\* when all of this was yielded.
Nested(lex, ended) ==
  \A k \in Started :
    /\ Agree(strm[k].seen, lex.out)
    /\ (ended /\ lex.st = "done") => IsPrefix(strm[k].seen, lex.out)
    /\ strm[k].st = "done" => ended /\ lex.st = "done" /\ strm[k].seen = lex.out
    /\ goal.k = "conj" =>
         \A e \in 1..Len(strm[k].log) :
           strm[k].log[e] = <<"next", <<1>>>> =>
             Count(strm[k].log, "yield", <<1>>, e - 1)
               = Count(strm[k].log, "done", <<2>>, e - 1)
LexOf(outer) ==
  Nested(Lex(outer, conj(Tail(ctor.args)), 1, [out |-> <<>>, st |-> "done"]),
         outer.st = "done")
C9_Lexicographic ==
  (ctor.f = "conj" /\ Len(ctor.args) > 0) => LexOf(Stream(ctor.args[1], st0, Depth))

\* C9 witness: a conj has yielded two elements of g2 on the first element
\* of g1, then one on the second element of g1
C9_Witness ==
  /\ ctor.f = "conj"
  /\ goal.k = "conj"
  /\ \E k \in Started :
       /\ Len(strm[k].seen) >= 3
       /\ strm[k].seen[1]["x"] = strm[k].seen[2]["x"]
       /\ strm[k].seen[1]["y"] # strm[k].seen[2]["y"]
       /\ strm[k].seen[2]["x"] # strm[k].seen[3]["x"]
       /\ Count(strm[k].log, "yield", <<1>>, Len(strm[k].log)) = 2

\* C10: a conj with the constant fail among its arguments, at any position,
\* yields nothing and every pull of it returns
C10_FailShortCircuits ==
  (ctor.f = "conj" /\ \E i \in 1..Len(ctor.args) : ctor.args[i] = fail) =>
    \A k \in Started : strm[k].seen = <<>> /\ strm[k].st \in {"active", "done"}

\* C4: two streams of the same goal object on the same State have the same
\* elements: they agree as far as both were pulled, and one that has ended
\* is not shorter than the other
C4_Pure ==
  ctor \in Calls =>
    \A i, j \in Started :
      /\ Agree(strm[i].seen, strm[j].seen)
      /\ strm[i].st = "done" => Len(strm[j].seen) <= Len(strm[i].seen)

\* s1 keeps every binding of s (a Var bound to itself is unbound)
Extends(s, s1) ==
  \A id \in DOMAIN s : s[id] # Var(id) => (id \in DOMAIN s1 /\ s1[id] = s[id])

\* C2: every State a goal yields extends the State the goal was invoked
\* on: every binding of st0 is in it
C2_Extends ==
  \A k \in Started : \A j \in 1..Len(strm[k].out) : Extends(st0, strm[k].out[j])

\* C5: a State is immutable once yielded: every yielded State still reads
\* as it did when it was yielded, whatever was pulled since
C5_Immutable ==
  \A k \in Started : \A j \in 1..Len(strm[k].out) :
    Look(strm[k].out[j], world.arr) = strm[k].seen[j]

\* nothing was called or resumed at or below the argument j of the goal
NeverInvoked(log, j) ==
  \A e \in 1..Len(log) : ~(Len(log[e][2]) > 0 /\ log[e][2][1] = j)
\* the stream was resumed at least once
Resumed(k) == Count(strm[k].log, "next", <<>>, Len(strm[k].log)) > 0
IsEmpty(g1) == g1.st = "done" /\ g1.out = <<>>
EmptyFirst(g1) ==
  IsEmpty(g1) =>
    \A k \in Started :
      /\ strm[k].seen = <<>>
      /\ strm[k].st \in {"active", "done"}
      /\ Resumed(k) => strm[k].st = "done"
      /\ goal.k = "conj" => NeverInvoked(strm[k].log, 2)

\* C11: a conj whose first conjunct yields nothing on s ends at its first
\* pull, has yielded nothing, and has never called nor resumed the rest of
\* the conjunction, whatever the rest would do
C11_EmptyConj ==
  (ctor.f = "conj" /\ Len(ctor.args) >= 2) => EmptyFirst(Stream(ctor.args[1], st0, Depth))

NeverEnds(g2) == g2.st \in {"active", "loop"}
\* C11 witness: a conj has ended at its first pull, its first conjunct
\* being empty on st0 and its second one a goal whose stream never ends
C11_Witness ==
  /\ ctor.f = "conj"
  /\ goal.k = "conj"
  /\ Len(ctor.args) = 2
  /\ IsEmpty(Stream(ctor.args[1], st0, Depth))
  /\ NeverEnds(Stream(ctor.args[2], st0, Depth))
  /\ \E k \in Started : strm[k].st = "done" /\ Resumed(k)

\* a clause as [head, tail...]: a goal g stands for the clause [g]
clauseHead(c) == IF isClauseArray(c) THEN c.gs[1] ELSE c
clauseTail(c) == IF isClauseArray(c) THEN Tail(c.gs) ELSE <<>>
\* the streams of the heads of the clauses of the constructor call on st0
HeadStreams ==
  [c \in 1..Len(ctor.args) |-> Stream(clauseHead(ctor.args[c]), st0, Depth)]
\* the least clause whose head yields, Len + 1 if there is none
Least(hs) ==
  IF \E i \in 1..Len(hs) : hs[i].out # <<>>
    THEN CHOOSE i \in 1..Len(hs) :
           hs[i].out # <<>> /\ \A j \in 1..(i - 1) : hs[j].out = <<>>
  ELSE Len(hs) + 1
\* the resumptions of the head of clause j
HeadPulls(log, j) ==
  Count(log, "next", <<j>>, Len(log)) + Count(log, "next", <<j, 1>>, Len(log))

\* the streams are the tail of clause i over the stream of its head (lex),
\* no clause after i is touched, no head before i is resumed twice
CutAt(i, lex, ended) ==
  \A k \in Started :
    /\ Agree(strm[k].seen, lex.out)
    /\ (ended /\ lex.st = "done") => IsPrefix(strm[k].seen, lex.out)
    /\ strm[k].st = "done" => ended /\ lex.st = "done" /\ strm[k].seen = lex.out
    /\ goal.k = "conda" =>
         /\ \A j \in (i + 1)..Len(ctor.args) : NeverInvoked(strm[k].log, j)
         /\ \A j \in 1..(i - 1) : HeadPulls(strm[k].log, j) <= 1
NoHead ==
  \A k \in Started :
    /\ strm[k].seen = <<>>
    /\ strm[k].st \in {"active", "done"}
    /\ \A j \in 1..Len(ctor.args) : HeadPulls(strm[k].log, j) <= 1
SoftCutAt(hs, i) ==
  (\A j \in 1..(i - 1) : j <= Len(hs) => IsEmpty(hs[j])) =>
    IF i > Len(hs) THEN NoHead
    ELSE CutAt(i, Lex(hs[i], conj(clauseTail(ctor.args[i])), 1,
                      [out |-> <<>>, st |-> "done"]),
               hs[i].st = "done")
SoftCut(hs) == SoftCutAt(hs, Least(hs))

\* C12: conda is a soft cut: with i the first clause whose head yields on
\* s (the heads before it ending without a yield), the stream is the tail
\* conjunction of clause i on each element of the head's stream, in order,
\* and nothing else; no later clause is called, no earlier head is resumed
\* twice; with no such clause the stream is empty
C12_SoftCut == ctor.f = "conda" => SoftCut(HeadStreams)

\* the clauses with every goal g written as the clause [g]
AsClauses(args) ==
  [c \in 1..Len(args) |-> IF isClauseArray(args[c]) THEN args[c] ELSE Clause(<<args[c]>>)]
SameStream(ref) ==
  \A k \in Started :
    /\ Agree(strm[k].seen, ref.out)
    /\ strm[k].st = "done" => ref.st = "done" /\ strm[k].seen = ref.out
    /\ ref.st = "done" => IsPrefix(strm[k].seen, ref.out)

\* C13: conda with a goal g as a clause yields the same stream as conda
\* with the clause [g] in its place
C13_BareAsClause ==
  ctor.f = "conda" => SameStream(Stream(conda(AsClauses(ctor.args)), st0, Depth))

\* the streams are the stream ts of the tail of clause i on the first
\* element of its head; no clause after i is touched and the head of
\* clause i is resumed once
CommitAt(i, ts) ==
  \A k \in Started :
    /\ Agree(strm[k].seen, ts.out)
    /\ ts.st = "done" => IsPrefix(strm[k].seen, ts.out)
    /\ strm[k].st = "done" => ts.st = "done" /\ strm[k].seen = ts.out
    /\ \A j \in (i + 1)..Len(ctor.args) : NeverInvoked(strm[k].log, j)
    /\ HeadPulls(strm[k].log, i) <= 1
CommittedAt(hs, i) ==
  (\A j \in 1..(i - 1) : j <= Len(hs) => IsEmpty(hs[j])) =>
    IF i > Len(hs) THEN NoHead
    ELSE CommitAt(i, Stream(conj(clauseTail(ctor.args[i])), hs[i].out[1], Depth))
Committed(hs) == CommittedAt(hs, Least(hs))

\* C14: condu is a committed choice, each time it is invoked: with i the
\* first clause whose head yields on s, the stream is the stream of the
\* tail conjunction of clause i on the first element of the head, which is
\* resumed once, and no later clause is called
C14_Committed == ctor.f = "condu" => Committed(HeadStreams)

\* the streams are the first n elements of the stream g, and the iterator
\* of g (argument 1) is resumed at most n times
TruncatedTo(g, n) ==
  \A k \in Started :
    /\ Agree(strm[k].seen, SubSeq(g.out, 1, Min(n, Len(g.out))))
    /\ Len(strm[k].seen) <= n
    /\ strm[k].st = "done" => Len(strm[k].seen) = Min(n, Len(g.out))
    /\ Count(strm[k].log, "next", <<1>>, Len(strm[k].log)) <= n

\* C15: every invocation of take(n, g) on s yields the first
\* min(n, length of g(s)) elements of g(s) in order, and resumes g(s) at
\* most n times
C15_Truncates ==
  ctor.f = "take" => TruncatedTo(Stream(ctor.args[1], st0, Depth), ctor.n)

\* a call of a relational predicate with a Var among its arguments
Relational ==
  ctor.f \in {"succo", "pluso", "ntho"} /\ \E i \in 1..Len(ctor.args) : isVar(ctor.args[i])

\* C16: no instantiation error is raised while a goal is constructed: a
\* relational predicate called with Vars returns a goal, and so does a conj
\* that has such a call as a conjunct
C16_RaisedAtPull == (Relational \/ ctor.f = "conj") => goal.k # "raise"

\* the variables on the chain of variable-to-variable bindings that starts
\* at x (a variable bound to itself ends the chain)
RECURSIVE ChainN(_, _, _)
ChainN(s, x, n) ==
  IF n = 0 \/ x \notin DOMAIN s THEN {}
  ELSE IF ~isVar(s[x]) \/ s[x] = Var(x) THEN {}
  ELSE {s[x].id} \cup ChainN(s, s[x].id, n - 1)

\* some variable is reached again from itself through variable bindings
VarCycle(s) == \E x \in DOMAIN s : x \in ChainN(s, x, Cardinality(DOMAIN s) + 1)

\* C17: after any sequence of successful unify calls from a State whose
\* variables are all self-bound or absent, the variable-to-variable bindings
\* have no cycle and walk terminates on every term.
C17_WalkTerminates ==
  (call.op # "unifyCheck") =>
    /\ ~VarCycle(sub)
    /\ \A t \in UTerms : walk(t, sub) # Loop

\* unify was asked to close a cycle: one variable is already bound to the
\* other, and the call is made with the two in the opposite order
C17_Witness ==
  /\ UnifySucceeded
  /\ isVar(call.u) /\ isVar(call.v) /\ call.u # call.v
  /\ call.v.id \in DOMAIN call.s /\ call.s[call.v.id] = call.u
  /\ sub = call.s
  /\ walk(call.v, sub) = call.u

\* a variable with no binding in s, or bound to itself
Unbound(v, s) == v.id \notin DOMAIN s \/ s[v.id] = v

\* C18: walk(v, s) of a variable v that has no binding in s, or that is
\* bound to itself, returns v.
C18_StopsAtUnbound ==
  \A v \in {X, Y, Anon} : Unbound(v, sub) => walk(v, sub) = v

\* walk*(a, s) ++ walk*(b, s) = walk*(c, s), where the three are lists
Appended(a, b, c) == (isArray(a) /\ isArray(b) /\ isArray(c)) => a.e \o b.e = c.e
SoundAt(s) ==
  Appended(walkRec(ctor.args[1], s, <<>>), walkRec(ctor.args[2], s, <<>>),
           walkRec(ctor.args[3], s, <<>>))

\* C19: every substitution s' that appendo(a, b, c) yields has
\* walk*(a, s') ++ walk*(b, s') = walk*(c, s').
C19_AppendoSound ==
  ctor.f = "appendo" =>
    \A k \in Started : \A e \in 1..Len(strm[k].seen) : SoundAt(strm[k].seen[e])

\* appendo(p, s, l) with p and s two unbound variables of st0 and l a list
SplitCall ==
  /\ ctor.f = "appendo"
  /\ isVar(ctor.args[1]) /\ isVar(ctor.args[2]) /\ ctor.args[1] # ctor.args[2]
  /\ isArray(ctor.args[3])
  /\ walk(ctor.args[1], st0) = ctor.args[1]
  /\ walk(ctor.args[2], st0) = ctor.args[2]

\* the e-th element binds p to the first e - 1 elements of l and s to the rest
SplitAt(s, e) ==
  /\ Get(s, ctor.args[1].id) = Arr(SliceTo(ctor.args[3].e, e - 1))
  /\ Get(s, ctor.args[2].id) = Arr(SliceFrom(ctor.args[3].e, e - 1))

Splits(k) ==
  /\ strm[k].st \in {"active", "done"}
  /\ Len(strm[k].seen) <= Len(ctor.args[3].e) + 1
  /\ \A e \in 1..Len(strm[k].seen) : SplitAt(strm[k].seen[e], e)
  /\ strm[k].st = "done" => Len(strm[k].seen) = Len(ctor.args[3].e) + 1

\* C20: appendo(p, s, l) with l a list of length k and p, s unbound yields
\* the k + 1 splits of l in increasing length of p, and then ends.
C20_EverySplit == SplitCall => \A k \in Started : Splits(k)

\* the stream of appendo(p, s, [1, 2]) has ended after its three splits
C20_Witness ==
  /\ SplitCall
  /\ Len(ctor.args[3].e) = 2
  /\ \E k \in Started : strm[k].st = "done" /\ Len(strm[k].seen) = 3

\* s binds n to k and list to a sequence of length k + 1 that holds el at
\* the 0-based position k
NthAt(s, k) ==
  /\ Get(s, ctor.args[1].id) = Num(k)
  /\ isArray(Get(s, ctor.args[2].id))
  /\ Len(Get(s, ctor.args[2].id).e) = k + 1
  /\ Get(s, ctor.args[2].id).e[k + 1] = ctor.args[3]

\* C21: ntho(n, list, el) with n and list two unbound variables yields, for
\* k = 0, 1, 2, ... in order, n = k and list of length k + 1 with el at the
\* 0-based position k.
C21_ZeroIndexed ==
  (ctor.f = "ntho" /\ isVar(ctor.args[1]) /\ isVar(ctor.args[2])
     /\ ctor.args[1] # ctor.args[2])
    => \A k \in Started : \A e \in 1..Len(strm[k].seen) : NthAt(strm[k].seen[e], e - 1)

\* the stream k is s once if yes, and empty if not
Once(k, s, yes) ==
  /\ strm[k].st \in {"active", "done"}
  /\ Len(strm[k].seen) <= 1
  /\ Len(strm[k].seen) = 1 => (yes /\ strm[k].seen[1] = s)
  /\ strm[k].st = "done" => (Len(strm[k].seen) = 1 <=> yes)

\* C22: groundo(x) invoked on s yields s once if walk*(x, s) contains no
\* unbound variable, and nothing otherwise.
C22_Groundo ==
  ctor.f = "groundo" =>
    \A k \in Started : Once(k, st0, isGround(walkRec(ctor.args[1], st0, <<>>)))

\* the list of the call is known when the goal is invoked: a sequence, or a
\* variable that st0 binds to one
KnownList == walk(ctor.args[1], st0)

\* what the length argument is worth on s
LengthOn(s) == walk(ctor.args[2], s)

\* C23: lengtho(list, n) with list a sequence of length k, given directly or
\* through a variable bound on the State: one answer with n worth k when n is
\* unbound or worth k already, nothing otherwise, and the stream ends.
C23_Lengtho ==
  (ctor.f = "lengtho" /\ isArray(KnownList)) =>
    \A k \in Started :
      /\ strm[k].st \in {"active", "done"}
      /\ Len(strm[k].seen) <= 1
      /\ Len(strm[k].seen) = 1 =>
           (isInteger(LengthOn(strm[k].seen[1]))
              /\ LengthOn(strm[k].seen[1]).n = Len(KnownList.e))
      /\ strm[k].st = "done" =>
           (Len(strm[k].seen) = 1 <=>
              (isVar(LengthOn(st0))
                 \/ (isInteger(LengthOn(st0)) /\ LengthOn(st0).n = Len(KnownList.e))))

\* one side of the call is ground on s: str is worth a string, or cs a ground
\* list
OneSideGround(s) ==
  \/ walkRec(ctor.args[1], s, <<>>).k = "str"
  \/ (isArray(walkRec(ctor.args[2], s, <<>>)) /\ isGround(walkRec(ctor.args[2], s, <<>>)))

\* on s, str is worth a string and cs the list of its characters
CharsOf(str, cs) ==
  /\ str.k = "str"
  /\ isArray(cs)
  /\ \A i \in 1..Len(cs.e) : cs.e[i] \in {Str("a"), Str("b"), Str("1"), Str("2")}
  /\ join(cs.e) = str.id

\* C24: stringChars(str, cs) with one side ground on the State it is invoked
\* on raises nothing, terminates, and in every State it yields str is worth a
\* string and cs the list of that string's characters.
C24_StringChars ==
  (ctor.f = "stringChars" /\ OneSideGround(st0)) =>
    /\ goal.k # "raise"
    /\ \A k \in Started :
         /\ strm[k].st \in {"active", "done"}
         /\ \A e \in 1..Len(strm[k].seen) :
              CharsOf(walkRec(ctor.args[1], strm[k].seen[e], <<>>),
                      walkRec(ctor.args[2], strm[k].seen[e], <<>>))

\* cs is a ground list of decimal characters
Digits(cs) ==
  isArray(cs) /\ cs.e # <<>> /\ \A i \in 1..Len(cs.e) : cs.e[i] \in {Str("1"), Str("2")}

\* n is an unbound variable of st0 and cs, not ground as written, is worth a
\* list of decimal characters on st0
CharsBound ==
  /\ ctor.f = "numberChars"
  /\ isVar(walk(ctor.args[1], st0))
  /\ ~isGround(ctor.args[2])
  /\ Digits(walkRec(ctor.args[2], st0, <<>>))

\* C25: numberChars(n, cs) with n unbound and cs bound on the State to a
\* ground list of decimal characters raises nothing and yields exactly one
\* State, in which n is the number the characters denote.
C25_NumberChars ==
  CharsBound =>
    \A k \in Started :
      /\ strm[k].st \in {"active", "done"}
      /\ Len(strm[k].seen) <= 1
      /\ Len(strm[k].seen) = 1 =>
           walk(ctor.args[1], strm[k].seen[1])
             = Number(join(walkRec(ctor.args[2], st0, <<>>).e))
      /\ strm[k].st = "done" => Len(strm[k].seen) = 1

\* pluso(a, b, c) with two integers and one variable, the output
OneOutput ==
  /\ ctor.f = "pluso"
  /\ Cardinality({i \in 1..3 : isVar(ctor.args[i])}) = 1
  /\ \A i \in 1..3 : isVar(ctor.args[i]) \/ isInteger(ctor.args[i])
PlusOut == ctor.args[CHOOSE i \in 1..3 : isVar(ctor.args[i])]
\* the integer that makes c = a + b
PlusValue ==
  IF isVar(ctor.args[3]) THEN ctor.args[1].n + ctor.args[2].n
  ELSE IF isVar(ctor.args[2]) THEN ctor.args[3].n - ctor.args[1].n
  ELSE ctor.args[3].n - ctor.args[2].n
\* t is an integer, plain or arbitrary-precision, of value PlusValue
IsPlusValue(t) == isInteger(t) /\ t.n = PlusValue

\* C26: pluso with two integers and one variable yields one State, in which
\* the variable is worth the integer that makes c = a + b, when the variable
\* is unbound or already worth that integer, and nothing otherwise.
C26_Pluso ==
  OneOutput =>
    /\ goal.k # "raise"
    /\ \A k \in Started :
         /\ strm[k].st \in {"active", "done"}
         /\ Len(strm[k].seen) <= 1
         /\ Len(strm[k].seen) = 1 => IsPlusValue(walk(PlusOut, strm[k].seen[1]))
         /\ strm[k].st = "done" =>
              (Len(strm[k].seen) = 1
                 <=> (isVar(walk(PlusOut, st0)) \/ IsPlusValue(walk(PlusOut, st0))))

\* unify(el, x, s) for each x of els from the i-th on, where it succeeds
RECURSIVE Unified(_, _, _, _)
Unified(el, els, s, i) ==
  IF i > Len(els) THEN <<>>
  ELSE (IF unify(el, els[i], s, <<>>).r = "ok"
          THEN <<unify(el, els[i], s, <<>>).s>> ELSE <<>>)
       \o Unified(el, els, s, i + 1)

\* the stream k is an initial part of the sequence of States ss, and all of
\* it once the stream has ended
Yields(k, ss) ==
  /\ strm[k].st \in {"active", "done"}
  /\ IsPrefix(strm[k].seen, ss)
  /\ strm[k].st = "done" => strm[k].seen = ss

\* C27: membero(el, list) with list a sequence, given directly or through a
\* variable bound on the State, yields unify(el, x, s) for each element x of
\* the list that unifies with el, in list order, and nothing else.
C27_Membero ==
  (ctor.f = "membero" /\ isArray(walk(ctor.args[2], st0))) =>
    \A k \in Started : Yields(k, Unified(ctor.args[1], walk(ctor.args[2], st0).e, st0, 1))

\* membero(1, [1, y]) has ended: the equal element gave the State unchanged,
\* the unbound element the State with y bound to 1
C27_Witness ==
  /\ ctor.f = "membero" /\ isArray(walk(ctor.args[2], st0))
  /\ \E k \in Started :
       /\ strm[k].st = "done"
       /\ Len(strm[k].seen) = 2
       /\ strm[k].seen[1] = st0
       /\ strm[k].seen[2] = extend(st0, Bind("y", ctor.args[1]))
       /\ strm[k].seen[2] # st0

\* the streams of the call are the stream ref: the same elements in the same
\* order, and the same end
FullStream(ref) ==
  \A k \in Started :
    /\ Agree(strm[k].seen, ref.out)
    /\ strm[k].st \in {"done", "throw", "loop"} =>
         (ref.st = strm[k].st /\ strm[k].seen = ref.out)

\* the stream of take(n, g) on the empty State, at most n long
AtMost(n, g) ==
  /\ goal = take(n, g, 1)
  /\ st0 = emptyState
  /\ \A k \in Started : Len(strm[k].seen) <= n

\* C28: run(n, goal) is take(n, goal) applied to the empty State and yields
\* at most n States; run(goal) is the stream of goal applied to the empty
\* State.
C28_Run ==
  ctor.f = "run" =>
    IF Len(ctor.args) = 2 THEN AtMost(ctor.args[1].n, ctor.args[2])
    ELSE FullStream(Stream(ctor.args[1], emptyState, Depth))

\* the calls conj(), conj(g), conj(succeed, g), conj(fail, g), conj(g, succeed)
IdentityCall ==
  /\ ctor.f = "conj"
  /\ Len(ctor.args) <= 2
  /\ Len(ctor.args) = 2 =>
       (ctor.args[1] \in {succeed, fail} \/ ctor.args[2] = succeed)

\* the goal each of them is equivalent to: succeed, g, g, fail, g
IdentityOf(args) ==
  IF Len(args) = 0 THEN succeed
  ELSE IF Len(args) = 1 THEN args[1]
  ELSE IF args[1] = fail THEN fail
  ELSE IF args[1] = succeed THEN args[2]
  ELSE args[1]

\* C29: on every State conj(succeed, g) and conj(g, succeed) yield the stream
\* of g, conj(fail, g) the empty stream, conj() the stream of succeed and
\* conj(g) the stream of g.
C29_ConjIdentities ==
  IdentityCall => FullStream(Stream(IdentityOf(ctor.args), st0, Depth))

\* conj(g, succeed), a conjunction that runs g and then succeed for each of
\* its elements, has ended after the two elements of g
C29_Witness ==
  /\ IdentityCall
  /\ Len(ctor.args) = 2 /\ ctor.args[2] = succeed
  /\ goal.k = "conj"
  /\ \E k \in Started : strm[k].st = "done" /\ Len(strm[k].seen) = 2

\* u and v are, on s, two arrays of unequal length
UnequalLength(u, v, s, h) ==
  /\ isArray(walk(u, s)) /\ isArray(walk(v, s))
  /\ Len(Els(walk(u, s), h)) # Len(Els(walk(v, s), h))

\* u is, on s, a string and v the array of its characters
StringAndChars(u, v, s, h) ==
  /\ walk(u, s).k = "str" /\ isArray(walk(v, s))
  /\ \A i \in DOMAIN Els(walk(v, s), h) : Els(walk(v, s), h)[i].k = "str"
  /\ join(Els(walk(v, s), h)) = walk(u, s).id

Mismatch(u, v, s, h) ==
  \/ UnequalLength(u, v, s, h)
  \/ StringAndChars(u, v, s, h) \/ StringAndChars(v, u, s, h)

\* a stream without elements, which ends normally when it ends
EmptyStream(k) ==
  /\ strm[k].seen = <<>>
  /\ strm[k].st \in {"active", "done"}

\* C30: unify of two sequences of unequal length, or of a string and the
\* sequence of its characters, fails, and the goal identical of the two
\* yields the empty stream.
C30_MismatchFails ==
  (ctor.f = "goal" /\ goal.k = "identical" /\ Mismatch(goal.u, goal.v, st0, world.arr)) =>
    /\ unify(goal.u, goal.v, st0, world.arr).r = "fail"
    /\ \A k \in Started : EmptyStream(k)

\* identical([x], [1, 2]), whose first elements unify, has ended with no
\* element on a State that leaves x unbound
C30_Witness ==
  /\ ctor = Call("goal", <<identical(Arr(<<X>>), L12)>>, 0)
  /\ walk(X, st0) = X
  /\ UnequalLength(goal.u, goal.v, st0, world.arr)
  /\ \E k \in Started : strm[k].st = "done" /\ strm[k].seen = <<>>

\* conj(lengtho(x, n), identical(x, l)) with l a list of n numbers, on a
\* State that leaves x unbound
BindsFresh ==
  /\ ctor.f = "conj" /\ Len(ctor.args) = 2
  /\ \E n \in 0..MaxLen : ctor.args[1] = lengtho(X, Num(n))
                          /\ ctor.args[2].k = "identical"
                          /\ ctor.args[2].u = X
                          /\ Len(ctor.args[2].v.e) = n
  /\ isVar(walk(X, st0))

\* C31: the variables lengtho(x, n) binds an unbound x to are unbound logic
\* variables: a later identical(x, l) with l a list of n numbers unifies
\* them, so the conjunction yields one State, on which walkRec(x) is l.
C31_FreshVarsUnify ==
  BindsFresh =>
    \A k \in Started :
      strm[k].st = "done" =>
        /\ Len(strm[k].seen) = 1
        /\ walkRec(X, strm[k].seen[1], <<>>) = ctor.args[2].v

\* C32: no State a goal yields has a cycle of variable-to-variable bindings
\* through two or more variables, and walk terminates on each of its
\* variables.
C32_NoCycleYielded ==
  \A k \in Started :
    \A i \in 1..Len(strm[k].seen) :
      /\ ~VarCycle(strm[k].seen[i])
      /\ \A id \in DOMAIN strm[k].seen[i] : walk(Var(id), strm[k].seen[i]) # Loop

\* on s the list is [car | cdr]: a non-empty array whose first element is
\* car and whose remainder is cdr
IsCons(car, cdr, list, s) ==
  /\ isArray(walkRec(list, s, <<>>))
  /\ Len(walkRec(list, s, <<>>).e) > 0
  /\ walkRec(list, s, <<>>).e[1] = walkRec(car, s, <<>>)
  /\ Arr(Tail(walkRec(list, s, <<>>).e)) = walkRec(cdr, s, <<>>)

\* C33: conso(car, cdr, list) with cdr an unbound variable and list the
\* empty array, given or bound on the State, yields nothing; every State
\* conso yields has the list non-empty, car first and cdr its remainder.
C33_Conso ==
  ctor.f = "conso" =>
    \A k \in Started :
      /\ (isVar(walk(ctor.args[2], st0)) /\ walk(ctor.args[3], st0) = Arr(<<>>))
           => strm[k].seen = <<>>
      /\ \A i \in 1..Len(strm[k].seen) :
           IsCons(ctor.args[1], ctor.args[2], ctor.args[3], strm[k].seen[i])

====
